---- MODULE Spec2Model ----
(***************************************************************************)
(* Model of the Gmail tool server: the authentication middleware           *)
(* (GoogleAuthMiddleware.dispatch / check_access), the two-phase deletion  *)
(* tools (delete_draft, delete_label) with their confirmation tokens, and  *)
(* the folder tools (move_emails, archive_emails), the label tools, the     *)
(* list tools with their worker pool, and the authorization callback.      *)
(*                                                                         *)
(* Text is modelled as sequences of byte values (UTF-8 of ASCII text), a   *)
(* base64 text as a sequence of 6-bit digits 0..63, the pad sign and a     *)
(* sign for any character outside the base64 alphabet.  Wall-clock time is *)
(* counted in ticks of 1/TicksPerSecond seconds, so that time.time() has a *)
(* fractional part and int(time.time()) truncates it.                      *)
(***************************************************************************)
EXTENDS Integers, Sequences, FiniteSets, TLC

VARIABLES
    is_authenticated,   \* global_state "middleware.GoogleAuthMiddleware.is_authenticated"
    error_message,      \* global_state "middleware.GoogleAuthMiddleware.error_message"
    gmail_service,      \* global_state "google_gmail_service": None or the credential it was built from
    oauth_credentials,  \* global_state "google_oauth_credentials"
    store,              \* credential store: lookup key -> stored record or NotFound
    issued,             \* access values handed out by the token endpoint so far
    phase,              \* per request slot: "idle" | "downstream"
    run,                \* per request slot: what the guard run of the current request did
    now,                \* wall clock, in ticks
    clockSteps,         \* number of clock advances so far
    drafts,             \* draft ids present in the mailbox
    userLabels,         \* user label ids present in the mailbox
    msgLabels,          \* message id -> set of label ids
    held,               \* the confirmation token most recently returned to the caller, with
                        \* the id, the clock and the tool of the call that returned it
    last,               \* the tool call of the latest request: arguments, clock, result, API calls
    fanout,             \* the list tool in progress: its futures and what it has collected
    granted             \* the credential that the latest authorization obtained from Google

vars == <<is_authenticated, error_message, gmail_service, oauth_credentials,
          store, issued, phase, run, now, clockSteps, drafts, userLabels,
          msgLabels, held, last, fanout, granted>>

mailVars == <<drafts, userLabels, msgLabels>>

None == "None"

-----------------------------------------------------------------------------
(* Bounds of the model *)

TicksPerSecond == 2
MaxClockSteps == 2
MaxListLen == 2
MaxIssued == 2
StartTime == 1000
MaxListed == 3

-----------------------------------------------------------------------------
(* Program constants *)

\* Confirmation token validity in seconds
CONFIRMATION_TOKEN_VALIDITY_DURATION == 5 * 60

-----------------------------------------------------------------------------
(* Text helpers *)

Colon == 58
Minus == 45
Plus == 43
Underscore == 95
Space == 32
Digit0 == 48
InvalidByte == 255

IsDigit(c) == c >= Digit0 /\ c <= Digit0 + 9

RECURSIVE IntToStr(_)
\* str(n) for n >= 0
IntToStr(n) ==
    IF n < 10 THEN <<Digit0 + n>>
    ELSE Append(IntToStr(n \div 10), Digit0 + (n % 10))

RECURSIVE SplitOn(_, _)
\* s.split(sep) for a one-character separator: the list of parts
SplitOn(s, sep) ==
    IF \A i \in 1..Len(s) : s[i] # sep THEN <<s>>
    ELSE LET i == CHOOSE k \in 1..Len(s) :
                      s[k] = sep /\ \A j \in 1..(k - 1) : s[j] # sep
         IN  <<SubSeq(s, 1, i - 1)>> \o SplitOn(SubSeq(s, i + 1, Len(s)), sep)

RECURSIVE Strip(_)
\* s.strip() restricted to the blank character
Strip(s) ==
    IF s = <<>> THEN s
    ELSE IF Head(s) = Space THEN Strip(Tail(s))
    ELSE IF s[Len(s)] = Space THEN Strip(SubSeq(s, 1, Len(s) - 1))
    ELSE s

\* A conversion returns Ok(v), or Raised when the library call raises.
Ok(v) == [ok |-> TRUE, v |-> v]
Raised == [ok |-> FALSE]

RECURSIVE DigitsValue(_, _)
\* value of a digit string in which single underscores may separate digits
DigitsValue(s, acc) ==
    IF s = <<>> THEN Ok(acc)
    ELSE IF IsDigit(Head(s)) THEN DigitsValue(Tail(s), acc * 10 + (Head(s) - Digit0))
    ELSE IF Head(s) = Underscore /\ Len(s) >= 2 /\ IsDigit(s[2])
         THEN DigitsValue(Tail(s), acc)
    ELSE Raised

\* int(s) for a text s: blanks stripped, optional sign, decimal digits;
\* Raised stands for ValueError
ParseInt(s) ==
    LET t == Strip(s)
        signed == t # <<>> /\ Head(t) \in {Minus, Plus}
        body == IF signed THEN Tail(t) ELSE t
        v == IF body = <<>> \/ ~IsDigit(Head(body)) THEN Raised ELSE DigitsValue(body, 0)
    IN  IF ~v.ok THEN Raised
        ELSE IF signed /\ Head(t) = Minus THEN Ok(0 - v.v) ELSE v

\* bytes.decode(): Raised stands for UnicodeDecodeError.  The byte alphabet
\* of the model is ASCII plus InvalidByte, which no UTF-8 text contains.
Utf8Decode(b) == IF \E i \in 1..Len(b) : b[i] >= 128 THEN Raised ELSE Ok(b)

-----------------------------------------------------------------------------
(* base64 *)

Pad == 64
NonAlphabet == 65

RECURSIVE B64Encode(_)
\* base64.b64encode(b)
B64Encode(b) ==
    IF b = <<>> THEN <<>>
    ELSE IF Len(b) = 1 THEN
        <<b[1] \div 4, (b[1] % 4) * 16, Pad, Pad>>
    ELSE IF Len(b) = 2 THEN
        <<b[1] \div 4, (b[1] % 4) * 16 + (b[2] \div 16), (b[2] % 16) * 4, Pad>>
    ELSE
        <<b[1] \div 4, (b[1] % 4) * 16 + (b[2] \div 16),
          (b[2] % 16) * 4 + (b[3] \div 64), b[3] % 64>>
        \o B64Encode(SubSeq(b, 4, Len(b)))

RECURSIVE B64Scan(_, _, _, _, _, _)
\* binascii.a2b_base64 in its default, non-strict mode: characters outside
\* the alphabet are skipped, sufficient padding ends the data, and data that
\* stops inside a group of four raises binascii.Error
B64Scan(t, i, quad_pos, pads, leftchar, out) ==
    IF i > Len(t) THEN (IF quad_pos # 0 THEN Raised ELSE Ok(out))
    ELSE IF t[i] = Pad THEN
        IF quad_pos >= 2 /\ quad_pos + pads + 1 >= 4 THEN Ok(out)
        ELSE B64Scan(t, i + 1, quad_pos, pads + 1, leftchar, out)
    ELSE IF t[i] >= NonAlphabet THEN B64Scan(t, i + 1, quad_pos, pads, leftchar, out)
    ELSE IF quad_pos = 0 THEN B64Scan(t, i + 1, 1, 0, t[i], out)
    ELSE IF quad_pos = 1 THEN
        B64Scan(t, i + 1, 2, 0, t[i] % 16,
                Append(out, leftchar * 4 + (t[i] \div 16)))
    ELSE IF quad_pos = 2 THEN
        B64Scan(t, i + 1, 3, 0, t[i] % 4,
                Append(out, leftchar * 16 + (t[i] \div 4)))
    ELSE B64Scan(t, i + 1, 0, 0, 0, Append(out, leftchar * 64 + t[i]))

\* base64.b64decode(t)
B64Decode(t) == B64Scan(t, 1, 0, 0, 0, <<>>)

-----------------------------------------------------------------------------
(* Credential store and the authentication middleware *)

Slots == {1, 2}
Keys == {"tokA", "tokB"}
Headers == Keys \cup {"tokX", None}
NotFound == [error |-> "not found"]

\* Stored credential records.  well_formed: the keys that
\* Credentials.from_authorized_user_info requires are present.
\* expiry: None or the second at which the access value expires.
\* token: the access value, NoToken for none; expiry: NoExpiry for none.
NoToken == 0
NoExpiry == 0
NoService == <<>>
\* No authorization has taken place
NoGrant == [key |-> None, sub |-> None, token |-> NoToken, refresh_token |-> FALSE,
            expiry |-> NoExpiry]
RecValid == [sub |-> "u1", token |-> 1, refresh_token |-> TRUE, well_formed |-> TRUE, expiry |-> NoExpiry]
RecExpired == [sub |-> "u1", token |-> 1, refresh_token |-> TRUE, well_formed |-> TRUE, expiry |-> StartTime - 1]
RecExpiring == [sub |-> "u1", token |-> 1, refresh_token |-> TRUE, well_formed |-> TRUE, expiry |-> StartTime + 1]
RecNoRefresh == [sub |-> "u2", token |-> 1, refresh_token |-> FALSE, well_formed |-> TRUE, expiry |-> StartTime - 1]
RecNoToken == [sub |-> "u2", token |-> NoToken, refresh_token |-> TRUE, well_formed |-> TRUE, expiry |-> NoExpiry]
RecMalformed == [sub |-> "u2", token |-> 1, refresh_token |-> TRUE, well_formed |-> FALSE, expiry |-> NoExpiry]
StoredRecords == {RecValid, RecExpired, RecExpiring, RecNoRefresh, RecNoToken, RecMalformed}

MsgNoHeader == "X-ACCESS-TOKEN is a required header parameter."
MsgAuthAgain == "There has been an error with authenticating, please go to /auth/login and authenticate again"
MsgDeauth == "There has been an error with authenticating, please deauthenticate the app and go to /auth/login"
MsgCaught == "There has been an error with authenticating, please go to /auth/login to authenticate"
MsgDefault == "User is not authenticated."
MsgNoScope == "Gmail permission scope not available"

\* db_handler.get_credentials(access_token)
get_credentials(st, key) == IF key \in DOMAIN st THEN st[key] ELSE NotFound

\* db_handler.update_access_token(user_id, token)
update_access_token(st, user_id, token) ==
    [k \in DOMAIN st |->
        IF st[k] # NotFound /\ st[k].sub = user_id
        THEN [st[k] EXCEPT !.token = token]
        ELSE st[k]]

\* A credential taken as expired as soon as it carries an expiry
CredExpired_anyExpiry(c, t) == c.expiry # NoExpiry

\* Credentials.expired and Credentials.valid at clock t (ticks)
CredExpired(c, t) == c.expiry # NoExpiry /\ t >= c.expiry * TicksPerSecond
CredValid(c, t) == c.token # NoToken /\ ~CredExpired(c, t)

\* A refresh attempted for every expired credential
CanRefresh_noToken(c, t) == CredExpired(c, t)

\* creds.expired and creds.refresh_token: the condition of the refresh branch
CanRefresh(c, t) == CredExpired(c, t) /\ c.refresh_token

\* What the external collaborators do in one guard run:
\*   lookup  "ok" | "raise"                       the store read
\*   refresh "ok" | "exchange" | "verify" | "sub" | "write"   where the refresh raises
\*   attach  "ok" | "raise"                       building the Gmail service
\* The calls are made one after the other and the first that raises ends the
\* guard, so at most one of them is taken to raise in a run.
GuardInputs ==
    { x \in [lookup : {"ok", "raise"},
             refresh : {"ok", "exchange", "verify", "sub", "write"},
             attach : {"ok", "raise"}] :
        Cardinality({f \in {"lookup", "refresh", "attach"} : x[f] # "ok"}) <= 1 }

NoCall == [op |-> "none", args |-> <<>>, at |-> 0, result |-> <<>>, calls |-> <<>>]

NoRun == [header |-> None, terminal |-> "none", msg |-> None,
          lookups |-> 0, exchanges |-> 0, writes |-> 0,
          raised |-> "none", user_id |-> None,
          callNext |-> 0, response |-> "none"]

\* dispatch, the branch for a request without the x-access-token header
OnNoHeader_reject(base) ==
    [base EXCEPT !.terminal = "NoTokenHeader", !.msg = MsgNoHeader, !.then = "reject"]

\* dispatch looking the absent header value up in the store
OnNoHeader_lookup(base) ==
    [base EXCEPT !.terminal = "CredentialMissing", !.msg = MsgAuthAgain, !.lookups = 1]

OnNoHeader(base) ==
    [base EXCEPT !.terminal = "NoTokenHeader", !.msg = MsgNoHeader]

\* id_info["sub"]: the identity that the token endpoint asserts for the
\* refresh token of the stored credential cred
IdInfoSub(cred) == cred.sub

\* A refresh that tries the exchange a second time when it raised
Refresh_retry(base, st, cred, fresh, x) ==
    LET tried == [base EXCEPT !.lookups = 1,
                              !.exchanges = IF x.refresh = "exchange" THEN 2 ELSE 1]
        failed == [tried EXCEPT !.terminal = "RefreshFailed", !.msg = MsgAuthAgain,
                                !.raised = x.refresh]
    IN
    IF x.refresh \in {"exchange", "verify", "sub"} THEN failed
    ELSE IF x.refresh = "write" THEN
        [failed EXCEPT !.writes = 1, !.user_id = IdInfoSub(cred)]
    ELSE
        [tried EXCEPT !.terminal = "Valid", !.writes = 1, !.user_id = IdInfoSub(cred),
                      !.store = update_access_token(st, IdInfoSub(cred), fresh),
                      !.creds = [sub |-> cred.sub, token |-> fresh]]

\* The refresh that builds the service although the store write raised
Refresh_publishFirst(base, st, cred, fresh, x) ==
    LET tried == [base EXCEPT !.lookups = 1, !.exchanges = 1]
        failed == [tried EXCEPT !.terminal = "RefreshFailed", !.msg = MsgAuthAgain,
                                !.raised = x.refresh]
        creds == [sub |-> cred.sub, token |-> fresh]
    IN
    IF x.refresh \in {"exchange", "verify", "sub"} THEN failed
    ELSE IF x.refresh = "write" THEN
        [tried EXCEPT !.terminal = "Valid", !.writes = 1, !.raised = "write",
                      !.user_id = IdInfoSub(cred), !.creds = creds]
    ELSE
        [tried EXCEPT !.terminal = "Valid", !.writes = 1, !.user_id = IdInfoSub(cred),
                      !.store = update_access_token(st, IdInfoSub(cred), fresh),
                      !.creds = creds]

\* The refresh that stores the rebuilt credential in place of the record
Refresh_overwrite(base, st, cred, fresh, x) ==
    LET tried == [base EXCEPT !.lookups = 1, !.exchanges = 1]
        failed == [tried EXCEPT !.terminal = "RefreshFailed", !.msg = MsgAuthAgain,
                                !.raised = x.refresh]
    IN
    IF x.refresh \in {"exchange", "verify", "sub"} THEN failed
    ELSE IF x.refresh = "write" THEN
        [failed EXCEPT !.writes = 1, !.user_id = IdInfoSub(cred)]
    ELSE
        [tried EXCEPT !.terminal = "Valid", !.writes = 1, !.user_id = IdInfoSub(cred),
                      !.store = [k \in DOMAIN st |->
                                    IF st[k].sub = IdInfoSub(cred)
                                    THEN [st[k] EXCEPT !.token = fresh,
                                                       !.refresh_token = FALSE]
                                    ELSE st[k]],
                      !.creds = [sub |-> cred.sub, token |-> fresh]]

\* The refresh whose new access value does not reach the store
Refresh_staleStore(base, st, cred, fresh, x) ==
    LET tried == [base EXCEPT !.lookups = 1, !.exchanges = 1]
        failed == [tried EXCEPT !.terminal = "RefreshFailed", !.msg = MsgAuthAgain,
                                !.raised = x.refresh]
    IN
    IF x.refresh \in {"exchange", "verify", "sub"} THEN failed
    ELSE IF x.refresh = "write" THEN
        [failed EXCEPT !.writes = 1, !.user_id = IdInfoSub(cred)]
    ELSE
        [tried EXCEPT !.terminal = "Valid", !.writes = 1, !.user_id = IdInfoSub(cred),
                      !.creds = [sub |-> cred.sub, token |-> fresh]]

\* The refresh that goes on when the identity assertion cannot be verified
Refresh_unverified(base, st, cred, fresh, x) ==
    LET tried == [base EXCEPT !.lookups = 1, !.exchanges = 1]
        failed == [tried EXCEPT !.terminal = "RefreshFailed", !.msg = MsgAuthAgain,
                                !.raised = x.refresh]
    IN
    IF x.refresh = "exchange" THEN failed
    ELSE IF x.refresh = "write" THEN
        [failed EXCEPT !.writes = 1, !.user_id = IdInfoSub(cred)]
    ELSE
        [tried EXCEPT !.terminal = "Valid", !.writes = 1, !.raised = x.refresh,
                      !.user_id = cred.sub,
                      !.store = update_access_token(st, cred.sub, fresh),
                      !.creds = [sub |-> cred.sub, token |-> fresh]]

\* The refresh branch of dispatch: the exchange creds.refresh(), the
\* verification of the identity assertion, the extraction of its subject and
\* the store write, each of which may raise; the except of the branch sets
\* the message and goes on to call_next.
Refresh(base, st, cred, fresh, x) ==
    LET tried == [base EXCEPT !.lookups = 1, !.exchanges = 1]
        failed == [tried EXCEPT !.terminal = "RefreshFailed", !.msg = MsgAuthAgain,
                                !.raised = x.refresh]
    IN
    IF x.refresh \in {"exchange", "verify", "sub"} THEN failed
    ELSE IF x.refresh = "write" THEN
        [failed EXCEPT !.writes = 1, !.user_id = IdInfoSub(cred)]
    ELSE
        [tried EXCEPT !.terminal = "Valid", !.writes = 1, !.user_id = IdInfoSub(cred),
                      !.store = update_access_token(st, IdInfoSub(cred), fresh),
                      !.creds = [sub |-> cred.sub, token |-> fresh]]

\* The part of dispatch before call_next, as a function of the request
\* header, the collaborators' outcomes x, the store st, the clock t and the
\* next access value fresh.  Returns the terminal state, the message set
\* (None: no message set), the credential handed to the service builder
\* (NoService: not reached), the store afterwards, the external calls made
\* and how the branch ends (then: "call_next").
Guard(hdr, x, st, t, fresh) ==
    LET base == [terminal |-> "none", msg |-> None, creds |-> NoService, store |-> st,
                 lookups |-> 0, exchanges |-> 0, writes |-> 0,
                 raised |-> "none", user_id |-> None, then |-> "call_next"]
    IN
    IF hdr = None THEN OnNoHeader(base)
    ELSE IF x.lookup = "raise" THEN
        [base EXCEPT !.terminal = "StoreLookupFailed", !.msg = MsgAuthAgain, !.lookups = 1,
                     !.raised = "lookup"]
    ELSE LET cred == get_credentials(st, hdr) IN
    IF "error" \in DOMAIN cred THEN
        [base EXCEPT !.terminal = "CredentialMissing", !.msg = MsgAuthAgain, !.lookups = 1]
    ELSE IF ~cred.well_formed THEN
        [base EXCEPT !.terminal = "ParseFailed", !.lookups = 1, !.raised = "parse"]
    ELSE IF CredValid(cred, t) THEN
        [base EXCEPT !.terminal = "Valid", !.lookups = 1,
                     !.creds = [sub |-> cred.sub, token |-> cred.token]]
    ELSE IF CanRefresh(cred, t) THEN
        Refresh(base, st, cred, fresh, x)
    ELSE
        [base EXCEPT !.terminal = "InvalidUnrefreshable", !.msg = MsgDeauth, !.lookups = 1]

\* A service builder that publishes nothing
attach_google_services_skip(creds) ==
    UNCHANGED <<gmail_service, oauth_credentials>>

\* attach_google_services(credentials): the service is built first and then
\* the credential and the service are published
attach_google_services(creds) ==
    /\ oauth_credentials' = creds
    /\ gmail_service' = creds

\* A guard run that leaves the flag of the request before as it is
FlagAfterRun_noReset(flag, attached) == flag \/ attached

\* The flag after a guard run that found the flag at value flag: dispatch
\* sets it to False before anything else and to True once the service is
\* attached
FlagAfterRun(flag, attached) == attached

\* GoogleAuthMiddleware.dispatch up to its call of call_next, for the request
\* in slot s with header hdr.
dispatch(s, hdr, x) ==
    /\ phase[s] = "idle"
    /\ LET fresh == Cardinality(issued) + 2
           g == Guard(hdr, x, store, now, fresh)
           attached == g.terminal = "Valid" /\ x.attach = "ok"
           caught == g.terminal = "Valid" /\ x.attach = "raise"
       IN
       /\ g.exchanges = 1 => Cardinality(issued) < MaxIssued
       /\ store' = g.store
       /\ issued' = IF g.exchanges = 1 /\ x.refresh # "exchange"
                    THEN issued \cup {fresh} ELSE issued
       /\ is_authenticated' = FlagAfterRun(is_authenticated, attached)
       /\ error_message' = IF caught THEN MsgCaught
                           ELSE IF g.msg # None THEN g.msg
                           ELSE error_message
       /\ IF attached THEN attach_google_services(g.creds)
          ELSE UNCHANGED <<gmail_service, oauth_credentials>>
       /\ run' = [run EXCEPT ![s] =
                    [header |-> hdr,
                     terminal |-> IF caught THEN "AttachFailed" ELSE g.terminal,
                     msg |-> IF caught THEN MsgCaught ELSE g.msg,
                     lookups |-> g.lookups, exchanges |-> g.exchanges,
                     writes |-> g.writes,
                     raised |-> IF caught THEN "attach" ELSE g.raised,
                     user_id |-> g.user_id,
                     callNext |-> IF g.then = "call_next" THEN 1 ELSE 0,
                     response |-> IF g.then = "call_next" THEN "none" ELSE "rejected"]]
       /\ phase' = [phase EXCEPT ![s] = IF g.then = "call_next" THEN "downstream" ELSE "idle"]
    /\ last' = NoCall
    /\ UNCHANGED <<fanout, granted, now, clockSteps, drafts, userLabels, msgLabels, held>>

\* The downstream handler raises.  A first call of call_next is inside the
\* try block of dispatch: the handler of the outer except records a message
\* and calls call_next once more.  That second call is unprotected.
DownstreamRaises(s) ==
    /\ phase[s] = "downstream"
    /\ IF run[s].callNext = 1
       THEN /\ error_message' = MsgCaught
            /\ run' = [run EXCEPT ![s].callNext = 2]
            /\ UNCHANGED phase
       ELSE /\ run' = [run EXCEPT ![s].response = "downstream_exception"]
            /\ phase' = [phase EXCEPT ![s] = "idle"]
            /\ UNCHANGED error_message
    /\ UNCHANGED <<fanout, granted, is_authenticated, gmail_service, oauth_credentials, store, issued,
                   now, clockSteps, drafts, userLabels, msgLabels, held, last>>

\* An access check that lets every request through
check_access_open == <<>>

\* check_access(True): None when authenticated, else the error result
check_access ==
    IF ~is_authenticated
    THEN [status |-> "error",
          error |-> IF error_message = None THEN MsgDefault ELSE error_message]
    ELSE <<>>

\* The handler of slot s returns: dispatch returns the downstream response.
Return(s) ==
    /\ phase[s] = "downstream"
    /\ phase' = [phase EXCEPT ![s] = "idle"]
    /\ run' = [run EXCEPT ![s].response = "downstream"]

\* time passes
Tick ==
    /\ clockSteps < MaxClockSteps
    /\ \E d \in {1, CONFIRMATION_TOKEN_VALIDITY_DURATION * TicksPerSecond} : now' = now + d
    /\ clockSteps' = clockSteps + 1
    /\ UNCHANGED <<fanout, granted, is_authenticated, error_message, gmail_service, oauth_credentials,
                   store, issued, phase, run, drafts, userLabels, msgLabels, held, last>>

-----------------------------------------------------------------------------
(* Confirmation tokens and the two-phase deletion tools *)

\* str.encode() of the ids a caller passes
Id_d1 == "d1"
Id_L1 == "L1"
Id_ab == "a:b"
Utf8 == (Id_d1 :> <<100, 49>>) @@ (Id_L1 :> <<76, 49>>) @@ (Id_ab :> <<97, Colon, 98>>)
RequestIds == {Id_d1, Id_L1, Id_ab}
DraftIds == {Id_d1}
UserLabelIds == {Id_L1}

\* int(time.time()) at clock t
Seconds(t) == t \div TicksPerSecond

\* A first phase that leaves the clock out of the token
MintToken_noTime(id, t) == B64Encode(Utf8[id] \o <<Colon>> \o IntToStr(0))

\* The first phase: base64 of "<id>:<int(time.time())>"
MintToken(id, t) == B64Encode(Utf8[id] \o <<Colon>> \o IntToStr(Seconds(t)))

\* The second phase without the comparison of the ids
ValidateToken_anyId(tok, id, t) ==
    LET raw == B64Decode(tok) IN
    IF ~raw.ok THEN "invalid" ELSE
    LET text == Utf8Decode(raw.v) IN
    IF ~text.ok THEN "invalid" ELSE
    LET parts == SplitOn(text.v, Colon) IN
    IF Len(parts) # 2 THEN "invalid" ELSE
    LET token_timestamp == ParseInt(parts[2]) IN
    IF ~token_timestamp.ok THEN "invalid"
    ELSE IF t - token_timestamp.v * TicksPerSecond
              > CONFIRMATION_TOKEN_VALIDITY_DURATION * TicksPerSecond
         THEN "expired"
    ELSE "ok"

\* The second phase with the comparison of the ids before the expiry check
ValidateToken_idFirst(tok, id, t) ==
    LET raw == B64Decode(tok) IN
    IF ~raw.ok THEN "invalid" ELSE
    LET text == Utf8Decode(raw.v) IN
    IF ~text.ok THEN "invalid" ELSE
    LET parts == SplitOn(text.v, Colon) IN
    IF Len(parts) # 2 THEN "invalid" ELSE
    LET token_timestamp == ParseInt(parts[2]) IN
    IF ~token_timestamp.ok THEN "invalid"
    ELSE IF parts[1] # Utf8[id] THEN "mismatch"
    ELSE IF t - token_timestamp.v * TicksPerSecond
              > CONFIRMATION_TOKEN_VALIDITY_DURATION * TicksPerSecond
         THEN "expired"
    ELSE "ok"

\* A second phase that takes only the token handed out last
ValidateToken_mintedOnly(tok, id, t) ==
    IF tok # held.token THEN "invalid" ELSE
    LET raw == B64Decode(tok) IN
    IF ~raw.ok THEN "invalid" ELSE
    LET text == Utf8Decode(raw.v) IN
    IF ~text.ok THEN "invalid" ELSE
    LET parts == SplitOn(text.v, Colon) IN
    IF Len(parts) # 2 THEN "invalid" ELSE
    LET token_timestamp == ParseInt(parts[2]) IN
    IF ~token_timestamp.ok THEN "invalid"
    ELSE IF t - token_timestamp.v * TicksPerSecond
              > CONFIRMATION_TOKEN_VALIDITY_DURATION * TicksPerSecond
         THEN "expired"
    ELSE IF parts[1] # Utf8[id] THEN "mismatch"
    ELSE "ok"

\* The checks of the second phase, in the order of the code; everything that
\* raises inside the try block ends in "invalid".
ValidateToken(tok, id, t) ==
    LET raw == B64Decode(tok) IN
    IF ~raw.ok THEN "invalid" ELSE
    LET text == Utf8Decode(raw.v) IN
    IF ~text.ok THEN "invalid" ELSE
    LET parts == SplitOn(text.v, Colon) IN
    IF Len(parts) # 2 THEN "invalid" ELSE
    LET token_timestamp == ParseInt(parts[2]) IN
    IF ~token_timestamp.ok THEN "invalid"
    ELSE IF t - token_timestamp.v * TicksPerSecond
              > CONFIRMATION_TOKEN_VALIDITY_DURATION * TicksPerSecond
         THEN "expired"
    ELSE IF parts[1] # Utf8[id] THEN "mismatch"
    ELSE "ok"

MsgExpired == "Confirmation token has expired. Please request a new token."
MsgInvalid == "Invalid confirmation token."
MsgMismatchDraft == "Invalid confirmation token. Parameters do not match."
MsgMismatchLabel == "Invalid confirmation token. Parameters do not match, please request a new token."

\* The result returned for a token that fails a check
TokenFailure(verdict, mismatchMsg, tok, id) ==
    IF verdict = "expired" THEN [error |-> MsgExpired]
    ELSE IF verdict = "mismatch"
         THEN [error |-> mismatchMsg,
               details |-> [token_params |-> SplitOn(B64Decode(tok).v, Colon)[1],
                            request_params |-> Utf8[id]]]
    ELSE [error |-> MsgInvalid]

\* Tokens a caller makes up: payloads "d1:9999" (issued in the future),
\* "d1:0" (long expired), "d1" (no separator), "d1:x" (no number), a payload
\* that is not UTF-8, and a text ending inside a group of four.
ForgedTokens ==
    { B64Encode(Utf8[Id_d1] \o <<Colon, 57, 57, 57, 57>>),
      B64Encode(Utf8[Id_d1] \o <<Colon, Digit0>>),
      B64Encode(Utf8[Id_d1]),
      B64Encode(Utf8[Id_d1] \o <<Colon, 120>>),
      B64Encode(<<InvalidByte, Colon, 49>>),
      <<25>> }

\* What the mailbox API does with a call: "ok", "http" (HttpError) or
\* "other" (any other exception)
ApiOutcomes == {"ok", "http", "other"}

\* A delete that is skipped when the resource is already gone
DeleteCall_ifExists(kind, okMsg, id, api, exists) ==
    LET none == [result |-> <<>>, calls |-> <<>>, deleted |-> FALSE, minted |-> <<>>]
        call == <<[api |-> kind, id |-> id]>>
    IN
    IF ~exists THEN
        [none EXCEPT !.result = [status |-> "error", error |-> "HttpError"]]
    ELSE IF api = "ok" THEN
        [result |-> [status |-> "success", message |-> okMsg],
         calls |-> call, deleted |-> TRUE, minted |-> <<>>]
    ELSE IF api = "other" THEN
        [none EXCEPT !.result = [status |-> "error", error |-> "Unexpected error"],
                     !.calls = call]
    ELSE
        [none EXCEPT !.result = [status |-> "error", error |-> "HttpError"],
                     !.calls = call]

\* The delete call after an accepted token: the mailbox answers an HttpError
\* for a resource that does not exist
DeleteCall(kind, okMsg, id, api, exists) ==
    LET none == [result |-> <<>>, calls |-> <<>>, deleted |-> FALSE, minted |-> <<>>]
        call == <<[api |-> kind, id |-> id]>>
    IN
    IF api = "ok" /\ exists THEN
        [result |-> [status |-> "success", message |-> okMsg],
         calls |-> call, deleted |-> TRUE, minted |-> <<>>]
    ELSE IF api = "other" THEN
        [none EXCEPT !.result = [status |-> "error", error |-> "Unexpected error"],
                     !.calls = call]
    ELSE
        [none EXCEPT !.result = [status |-> "error", error |-> "HttpError"],
                     !.calls = call]

\* A tool that accepts only the tokens that it returned itself
DeleteTool_ownTokens(kind, mismatchMsg, okMsg, id, tok, api, exists) ==
    LET mine == IF kind = "drafts.delete" THEN "delete_draft" ELSE "delete_label"
        none == [result |-> <<>>, calls |-> <<>>, deleted |-> FALSE, minted |-> <<>>]
    IN
    IF check_access # <<>> THEN [none EXCEPT !.result = check_access]
    ELSE IF gmail_service = NoService THEN
        [none EXCEPT !.result = [status |-> "error", error |-> MsgNoScope]]
    ELSE IF tok = <<>> THEN
        [none EXCEPT !.result = [message |-> "Confirmation required",
                                 confirmation_token |-> MintToken(id, now),
                                 action |-> "confirm_deletion"],
                     !.minted = MintToken(id, now)]
    ELSE IF ValidateToken(tok, id, now) # "ok" THEN
        [none EXCEPT !.result = TokenFailure(ValidateToken(tok, id, now), mismatchMsg, tok, id)]
    ELSE IF tok = held.token /\ held.by # mine THEN
        [none EXCEPT !.result = [error |-> MsgInvalid]]
    ELSE DeleteCall(kind, okMsg, id, api, exists)

\* The body shared by gmail_delete_draft_tool and gmail_delete_label_tool
\* after the logging: returns the result, the API calls issued and whether
\* the resource is deleted.  api: outcome of the delete call; exists: the
\* resource is in the mailbox.
DeleteTool(kind, mismatchMsg, okMsg, id, tok, api, exists) ==
    LET auth_response == check_access
        none == [result |-> <<>>, calls |-> <<>>, deleted |-> FALSE, minted |-> <<>>]
    IN
    IF auth_response # <<>> THEN [none EXCEPT !.result = auth_response]
    ELSE IF gmail_service = NoService THEN
        [none EXCEPT !.result = [status |-> "error", error |-> MsgNoScope]]
    ELSE IF tok = <<>> THEN
        LET t == MintToken(id, now) IN
        [none EXCEPT !.result = [message |-> "Confirmation required",
                                 confirmation_token |-> t,
                                 action |-> "confirm_deletion"],
                     !.minted = t]
    ELSE LET verdict == ValidateToken(tok, id, now) IN
    IF verdict # "ok" THEN
        [none EXCEPT !.result = TokenFailure(verdict, mismatchMsg, tok, id)]
    ELSE DeleteCall(kind, okMsg, id, api, exists)

\* The caller keeps the token it was given last
NoHeld == [token |-> <<>>, id |-> None, at |-> 0, by |-> None]
Keep(minted, id, op) ==
    IF minted # <<>> THEN [token |-> minted, id |-> id, at |-> now, by |-> op] ELSE held

\* gmail_delete_draft_tool(draft_id, confirmation_token) as the handler of slot s
gmail_delete_draft_tool(s, draft_id, confirmation_token, api) ==
    /\ Return(s)
    /\ LET r == DeleteTool("drafts.delete", MsgMismatchDraft, "Draft deleted successfully.",
                           draft_id, confirmation_token, api, draft_id \in drafts)
       IN
       /\ drafts' = IF r.deleted THEN drafts \ {draft_id} ELSE drafts
       /\ held' = Keep(r.minted, draft_id, "delete_draft")
       /\ last' = [op |-> "delete_draft",
                   args |-> [id |-> draft_id, token |-> confirmation_token],
                   at |-> now, result |-> r.result, calls |-> r.calls]
    /\ UNCHANGED <<fanout, granted, is_authenticated, error_message, gmail_service, oauth_credentials,
                   store, issued, now, clockSteps, userLabels, msgLabels>>

\* gmail_delete_label_tool(label_id, confirmation_token) as the handler of slot s
gmail_delete_label_tool(s, label_id, confirmation_token, api) ==
    /\ Return(s)
    /\ LET r == DeleteTool("labels.delete", MsgMismatchLabel, "Label deleted successfully.",
                           label_id, confirmation_token, api, label_id \in userLabels)
       IN
       /\ userLabels' = IF r.deleted THEN userLabels \ {label_id} ELSE userLabels
       /\ msgLabels' = IF r.deleted
                       THEN [m \in DOMAIN msgLabels |-> msgLabels[m] \ {label_id}]
                       ELSE msgLabels
       /\ held' = Keep(r.minted, label_id, "delete_label")
       /\ last' = [op |-> "delete_label",
                   args |-> [id |-> label_id, token |-> confirmation_token],
                   at |-> now, result |-> r.result, calls |-> r.calls]
    /\ UNCHANGED <<fanout, granted, is_authenticated, error_message, gmail_service, oauth_credentials,
                   store, issued, now, clockSteps, drafts>>

-----------------------------------------------------------------------------
(* Labels and the folder tools *)

Msgs == {"m1", "m2"}
SystemLabelIds == {"INBOX", "TRASH", "SPAM", "IMPORTANT"}
LabelIds == SystemLabelIds \cup UserLabelIds
LabelName == (Id_L1 :> "Work") @@ [l \in SystemLabelIds |-> l]
TargetNames == {"INBOX", "TRASH", "IMPORTANT", "Work", "NoSuchLabel"}

\* users().labels().list(): the label catalog of the mailbox
all_labels ==
    { [id |-> l, name |-> LabelName[l],
       type |-> IF l \in SystemLabelIds THEN "system" ELSE "user"] :
      l \in SystemLabelIds \cup userLabels }

system_folder_labels == {"INBOX", "DRAFT", "TRASH", "SPAM", "CHAT", "[Imap]/Sent"}

\* folder_label_ids of move_emails and archive_emails
folder_label_ids ==
    { label.id : label \in
        { l \in all_labels :
            (l.type = "system" /\ l.name \in system_folder_labels) \/ l.type = "user" } }

\* label_name_to_id[name]
label_id_of(name) == (CHOOSE l \in all_labels : l.name = name).id

\* Where a mailbox API call of a folder tool fails: call "none", or "list",
\* or the "get" / "modify" of the message at position at; kind "http"
\* (HttpError) or "other" (any other exception).
NoFailure == [call |-> "none", at |-> 0, kind |-> "none"]
Failures(message_ids) ==
    {NoFailure}
    \cup [call : {"list"}, at : {0}, kind : {"http", "other"}]
    \cup [call : {"get", "modify"}, at : 1..Len(message_ids), kind : {"http", "other"}]

MessageLists ==
    UNION { [1..n -> Msgs] : n \in 0..MaxListLen }

\* move_emails keeping the folder labels the message has
labels_to_remove_move_none(current_labels, new_folder_label_id) == {}

\* move_emails removing every label but the target
labels_to_remove_move_all(current_labels, new_folder_label_id) ==
    { label_id \in current_labels : label_id # new_folder_label_id }

\* move_emails without the exclusion of the target from the remove list
labels_to_remove_move_target(current_labels, new_folder_label_id) ==
    { label_id \in current_labels : label_id \in folder_label_ids }

\* labels_to_remove of move_emails
labels_to_remove_move(current_labels, new_folder_label_id) ==
    { label_id \in current_labels :
        label_id \in folder_label_ids /\ label_id # new_folder_label_id }

\* archive_emails removing every label of the message
labels_to_remove_archive_all(current_labels) == current_labels

\* labels_to_remove of archive_emails
labels_to_remove_archive(current_labels) ==
    { label_id \in current_labels : label_id \in folder_label_ids }

\* users().messages().modify(): the mailbox applies the label changes
modify(labels, message_id, removeLabelIds, addLabelIds) ==
    [labels EXCEPT ![message_id] = (@ \ removeLabelIds) \cup addLabelIds]

\* The texts of the results that name a message or a label
ErrFailedToModify ==
    ("m1" :> "Failed to modify email m1") @@ ("m2" :> "Failed to modify email m2")
ErrLabelNotFound ==
    ("INBOX" :> "Label 'INBOX' not found.") @@ ("TRASH" :> "Label 'TRASH' not found.")
    @@ ("IMPORTANT" :> "Label 'IMPORTANT' not found.") @@ ("Work" :> "Label 'Work' not found.")
    @@ ("NoSuchLabel" :> "Label 'NoSuchLabel' not found.")
MsgMoved ==
    ("INBOX" :> "Email(s) successfully moved to 'INBOX'")
    @@ ("TRASH" :> "Email(s) successfully moved to 'TRASH'")
    @@ ("IMPORTANT" :> "Email(s) successfully moved to 'IMPORTANT'")
    @@ ("Work" :> "Email(s) successfully moved to 'Work'")
    @@ ("NoSuchLabel" :> "Email(s) successfully moved to 'NoSuchLabel'")
MsgArchived == "Email(s) successfully had all labels removed."
ErrUnexpected == "Unexpected error"
\* the tool raises instead of returning a result
ErrUnbound == [exception |-> "UnboundLocalError: message_id"]

\* A failure that undoes what the loop did to the earlier messages
OnMessageFailure_rollback(error, labels, calls) ==
    [result |-> error, labels |-> msgLabels, calls |-> calls]

\* The except branch inside the loop: the tool returns the error at once;
\* labels is the mailbox as the earlier iterations left it.
OnMessageFailure(error, labels, calls) ==
    [result |-> error, labels |-> labels, calls |-> calls]

RECURSIVE FolderLoop(_, _, _, _, _, _, _)
\* The loop over message_ids of move_emails (target is a one-element set)
\* and archive_emails (target is empty), from position i on.
FolderLoop(message_ids, i, labels, calls, fail, target, okMsg) ==
    IF i > Len(message_ids) THEN
        [result |-> [status |-> "success", message |-> okMsg],
         labels |-> labels, calls |-> calls]
    ELSE
    LET message_id == message_ids[i]
        failed(c) == fail.call = c /\ fail.at = i
        error == IF fail.kind = "http"
                 THEN [status |-> "error", error |-> ErrFailedToModify[message_id]]
                 ELSE [status |-> "error", error |-> ErrUnexpected]
        got == Append(calls, [api |-> "messages.get", id |-> message_id])
        labels_to_remove ==
            IF target = {} THEN labels_to_remove_archive(labels[message_id])
            ELSE labels_to_remove_move(labels[message_id], CHOOSE l \in target : TRUE)
        modified == Append(got, [api |-> "messages.modify", id |-> message_id,
                                 removeLabelIds |-> labels_to_remove,
                                 addLabelIds |-> target])
    IN
    IF failed("get") THEN OnMessageFailure(error, labels, got)
    ELSE IF failed("modify") THEN OnMessageFailure(error, labels, modified)
    ELSE FolderLoop(message_ids, i + 1,
                    modify(labels, message_id, labels_to_remove, target),
                    modified, fail, target, okMsg)

\* A move to a name outside the catalog that strips the folder labels
OnUnknownFolder_proceed(message_ids, new_folder_label, fail, listed) ==
    FolderLoop(message_ids, 1, msgLabels, listed, fail, {}, MsgMoved[new_folder_label])

\* move_emails when new_folder_label is not in label_name_to_id
OnUnknownFolder(message_ids, new_folder_label, fail, listed) ==
    [result |-> [status |-> "error", error |-> ErrLabelNotFound[new_folder_label]],
     labels |-> msgLabels, calls |-> listed]

\* The body shared by the two folder tools.  isMove: whether a target name
\* is looked up in the catalog.
FolderTool(isMove, message_ids, new_folder_label, fail, okMsg) ==
    LET auth_response == check_access
        none == [result |-> <<>>, labels |-> msgLabels, calls |-> <<>>]
        listed == <<[api |-> "labels.list"]>>
    IN
    IF auth_response # <<>> THEN [none EXCEPT !.result = auth_response]
    ELSE IF gmail_service = NoService THEN
        [none EXCEPT !.result = [status |-> "error", error |-> MsgNoScope]]
    ELSE IF fail.call = "list" THEN
        \* the handler of the outer except HttpError formats message_id, which
        \* is not bound before the loop
        [none EXCEPT !.calls = listed,
                     !.result = IF fail.kind = "http" THEN ErrUnbound
                                ELSE [status |-> "error", error |-> ErrUnexpected]]
    ELSE IF isMove /\ new_folder_label \notin {l.name : l \in all_labels} THEN
        OnUnknownFolder(message_ids, new_folder_label, fail, listed)
    ELSE FolderLoop(message_ids, 1, msgLabels, listed, fail,
                    IF isMove THEN {label_id_of(new_folder_label)} ELSE {}, okMsg)

\* gmail_move_emails_tool(message_ids, new_folder_label) as the handler of slot s
gmail_move_emails_tool(s, message_ids, new_folder_label, fail) ==
    /\ Return(s)
    /\ LET r == FolderTool(TRUE, message_ids, new_folder_label, fail,
                           MsgMoved[new_folder_label])
       IN
       /\ msgLabels' = r.labels
       /\ last' = [op |-> "move",
                   args |-> [message_ids |-> message_ids,
                             new_folder_label |-> new_folder_label],
                   at |-> now, result |-> r.result, calls |-> r.calls, fail |-> fail]
    /\ UNCHANGED <<fanout, granted, is_authenticated, error_message, gmail_service, oauth_credentials,
                   store, issued, now, clockSteps, drafts, userLabels, held>>

\* gmail_archive_emails_tool(message_ids) as the handler of slot s
gmail_archive_emails_tool(s, message_ids, fail) ==
    /\ Return(s)
    /\ LET r == FolderTool(FALSE, message_ids, None, fail, MsgArchived)
       IN
       /\ msgLabels' = r.labels
       /\ last' = [op |-> "archive",
                   args |-> [message_ids |-> message_ids],
                   at |-> now, result |-> r.result, calls |-> r.calls, fail |-> fail]
    /\ UNCHANGED <<fanout, granted, is_authenticated, error_message, gmail_service, oauth_credentials,
                   store, issued, now, clockSteps, drafts, userLabels, held>>

-----------------------------------------------------------------------------
(* The spam tool and the label tool *)

\* The ids of the label catalog
CatalogIds == {l.id : l \in all_labels}

ErrGoogleApi == "Google API error"
ErrGoogleApiLabels ==
    [action \in {"add", "remove"} |->
        [m \in Msgs |->
            [status |-> "error", message_id |-> m,
             error |-> IF action = "add" THEN "Google API error while adding labels"
                       ELSE "Google API error while removeing labels"]]]
ErrNoneMatched == "None of the provided label names matched existing Gmail labels."
ErrInvalidAction == "Invalid action. Use 'add' or 'remove'."
\* str(e) of the exception that the outer except of manage_labels catches
ErrException == "str(e)"
MsgSpam == [mark_as_spam \in BOOLEAN |->
               IF mark_as_spam THEN "Emails marked as spam"
               ELSE "Emails marked as not spam"]
MsgLabels == ("add" :> "Labels added to/from emails.")
             @@ ("remove" :> "Labels removeed to/from emails.")

\* Where a modify call of these tools fails
ModifyFailures(message_ids) ==
    {NoFailure}
    \cup [call : {"modify"}, at : 1..Len(message_ids), kind : {"http", "other"}]

RECURSIVE ModifyLoop(_, _, _, _, _, _, _, _, _)
\* A loop that issues one modify call per message id, from position i on.
\* onHttp[m]: the result returned when the call on m raises HttpError;
\* onOther: the result of the outer except Exception.
ModifyLoop(message_ids, i, labels, calls, fail, removeLabelIds, addLabelIds, onHttp, onOther) ==
    IF i > Len(message_ids) THEN
        [result |-> <<>>, labels |-> labels, calls |-> calls]
    ELSE
    LET message_id == message_ids[i]
        called == Append(calls, [api |-> "messages.modify", id |-> message_id,
                                 removeLabelIds |-> removeLabelIds,
                                 addLabelIds |-> addLabelIds])
        \* the mailbox refuses a label id that is not in the catalog
        refused == ~((removeLabelIds \cup addLabelIds) \subseteq CatalogIds)
    IN
    IF refused \/ (fail.call = "modify" /\ fail.at = i /\ fail.kind = "http")
    THEN [result |-> onHttp[message_id], labels |-> labels, calls |-> called]
    ELSE IF fail.call = "modify" /\ fail.at = i
    THEN [result |-> onOther, labels |-> labels, calls |-> called]
    ELSE ModifyLoop(message_ids, i + 1,
                    modify(labels, message_id, removeLabelIds, addLabelIds),
                    called, fail, removeLabelIds, addLabelIds, onHttp, onOther)

\* The unmarking that leaves the SPAM label on the message
label_body_keepSpam(mark_as_spam, new_label) ==
    IF mark_as_spam THEN [removeLabelIds |-> {}, addLabelIds |-> {"SPAM"}]
    ELSE [removeLabelIds |-> {},
          addLabelIds |-> {IF new_label \in {None, ""} THEN "INBOX" ELSE new_label}]

\* label_body of set_emails_as_spam; new_label or "INBOX"
label_body(mark_as_spam, new_label) ==
    IF mark_as_spam THEN [removeLabelIds |-> {}, addLabelIds |-> {"SPAM"}]
    ELSE [removeLabelIds |-> {"SPAM"},
          addLabelIds |-> {IF new_label \in {None, ""} THEN "INBOX" ELSE new_label}]

\* The loop of set_emails_as_spam over message_ids, on the labels given
SpamLoop(message_ids, labels, mark_as_spam, new_label, fail) ==
    LET body == label_body(mark_as_spam, new_label) IN
    ModifyLoop(message_ids, 1, labels, <<>>, fail,
               body.removeLabelIds, body.addLabelIds,
               [m \in Msgs |-> [status |-> "error", error |-> ErrGoogleApi]],
               [status |-> "error", error |-> [message |-> ErrUnexpected]])

\* The body of gmail_set_emails_as_spam_tool
SpamTool(message_ids, mark_as_spam, new_label, fail) ==
    LET auth_response == check_access
        none == [result |-> <<>>, labels |-> msgLabels, calls |-> <<>>]
        r == SpamLoop(message_ids, msgLabels, mark_as_spam, new_label, fail)
    IN
    IF auth_response # <<>> THEN [none EXCEPT !.result = auth_response]
    ELSE IF gmail_service = NoService THEN
        [none EXCEPT !.result = [status |-> "error", error |-> MsgNoScope]]
    ELSE IF r.result # <<>> THEN r
    ELSE [r EXCEPT !.result = [status |-> "success", message |-> MsgSpam[mark_as_spam]]]

\* gmail_set_emails_as_spam_tool(message_ids, mark_as_spam, new_label) as the
\* handler of slot s
gmail_set_emails_as_spam_tool(s, message_ids, mark_as_spam, new_label, fail) ==
    /\ Return(s)
    /\ LET r == SpamTool(message_ids, mark_as_spam, new_label, fail) IN
       /\ msgLabels' = r.labels
       /\ last' = [op |-> "spam",
                   args |-> [message_ids |-> message_ids, mark_as_spam |-> mark_as_spam,
                             new_label |-> new_label],
                   at |-> now, result |-> r.result, calls |-> r.calls, fail |-> fail]
    /\ UNCHANGED <<fanout, granted, is_authenticated, error_message, gmail_service, oauth_credentials,
                   store, issued, now, clockSteps, drafts, userLabels, held>>

\* A label list in which a name outside the catalog is an error
label_ids_strict(labels) ==
    IF \E i \in 1..Len(labels) : labels[i] \notin {l.name : l \in all_labels}
    THEN {}
    ELSE {label_id_of(labels[i]) : i \in 1..Len(labels)}

\* label_ids of manage_labels: the ids of the requested names that are in
\* label_map
label_ids(labels) ==
    {label_id_of(labels[i]) :
        i \in {j \in 1..Len(labels) : labels[j] \in {l.name : l \in all_labels}}}

\* The loop of manage_labels over message_ids, on the labels given
ManageLoop(message_ids, current, labels, action, fail) ==
    LET ids == label_ids(labels) IN
    ModifyLoop(message_ids, 1, current, <<[api |-> "labels.list"]>>, fail,
               IF action = "add" THEN {} ELSE ids,
               IF action = "add" THEN ids ELSE {},
               ErrGoogleApiLabels[action],
               [status |-> "error", error |-> ErrException])

\* The body of gmail_manage_labels_tool
ManageTool(message_ids, labels, action, fail) ==
    LET auth_response == check_access
        none == [result |-> <<>>, labels |-> msgLabels, calls |-> <<>>]
        listed == <<[api |-> "labels.list"]>>
        ids == label_ids(labels)
        r == ManageLoop(message_ids, msgLabels, labels, action, fail)
    IN
    IF auth_response # <<>> THEN [none EXCEPT !.result = auth_response]
    ELSE IF gmail_service = NoService THEN
        [none EXCEPT !.result = [status |-> "error", error |-> MsgNoScope]]
    ELSE IF fail.call = "list" THEN
        [none EXCEPT !.calls = listed,
                     !.result = [status |-> "error", error |-> ErrException]]
    ELSE IF ids = {} THEN
        [none EXCEPT !.calls = listed,
                     !.result = [status |-> "error", error |-> ErrNoneMatched]]
    ELSE IF action \notin {"add", "remove"} THEN
        [none EXCEPT !.calls = listed,
                     !.result = [status |-> "error", error |-> ErrInvalidAction]]
    ELSE IF r.result # <<>> THEN r
    ELSE [r EXCEPT !.result = [status |-> "success", message |-> MsgLabels[action]]]

\* gmail_manage_labels_tool(message_ids, labels, action) as the handler of slot s
gmail_manage_labels_tool(s, message_ids, labels, action, fail) ==
    /\ Return(s)
    /\ LET r == ManageTool(message_ids, labels, action, fail) IN
       /\ msgLabels' = r.labels
       /\ last' = [op |-> "manage_labels",
                   args |-> [message_ids |-> message_ids, labels |-> labels,
                             action |-> action],
                   at |-> now, result |-> r.result, calls |-> r.calls, fail |-> fail]
    /\ UNCHANGED <<fanout, granted, is_authenticated, error_message, gmail_service, oauth_credentials,
                   store, issued, now, clockSteps, drafts, userLabels, held>>

-----------------------------------------------------------------------------
(* The list tools: a pool of workers that fetch the details of the items *)

\* ThreadPoolExecutor(max_workers=10)
max_workers == 10

\* The items that a listing returns: distinct ids, at most MaxListed of them
ListItems == {"m1", "m2", "m3"}
Listings ==
    UNION { {l \in [1..n -> ListItems] : \A i, j \in 1..n : l[i] = l[j] => i = j} :
            n \in 0..MaxListed }

\* No list tool is running.  While one runs:
\*   listed    the ids of the listing, one future per position
\*   status    per future: "queued" | "running" | "ok" | "failed"
\*   order     the futures in the order in which they completed
\*   entered   as_completed has been entered
\*   snapshot  the futures that were complete when as_completed was entered
\*   early     those of them not yet yielded
\*   late      the futures completed since, in the order of completion, not yet yielded
\*   yielded   the number of futures yielded
\*   detailed  the list collected so far
NoFanout == [op |-> "none", slot |-> 0, listed |-> <<>>, status |-> <<>>, order |-> <<>>,
             entered |-> FALSE, snapshot |-> {}, early |-> {}, late |-> <<>>,
             yielded |-> 0, detailed |-> <<>>]

Running(f) == {i \in 1..Len(f.status) : f.status[i] = "running"}
Completed(f) == {i \in 1..Len(f.status) : f.status[i] \in {"ok", "failed"}}

\* The body of a list tool up to the submission of the futures.  listing:
\* "ok", or how the list call fails ("http" | "other").  Returns the result
\* with which the tool returns at once, or <<>> when the futures are submitted.
ListTool(op, listed, listing) ==
    LET auth_response == check_access IN
    IF auth_response # <<>> THEN [result |-> auth_response, calls |-> <<>>]
    ELSE IF gmail_service = NoService THEN
        [result |-> [status |-> "error", error |-> MsgNoScope], calls |-> <<>>]
    ELSE IF listing = "http" THEN
        [result |-> [status |-> "error", error |-> ErrGoogleApi],
         calls |-> <<[api |-> "list"]>>]
    ELSE IF listing = "other" THEN
        [result |-> [status |-> "error", error |-> [message |-> ErrUnexpected]],
         calls |-> <<[api |-> "list"]>>]
    ELSE IF op = "get_drafts" /\ listed = <<>> THEN
        \* "drafts" not in the response
        [result |-> [status |-> "success", items |-> <<>>], calls |-> <<[api |-> "list"]>>]
    ELSE [result |-> <<>>, calls |-> <<[api |-> "list"]>>]

\* A list tool as the handler of slot s: it returns at once, or lists the
\* items and submits one future for each to the pool.
ListToolBegin(s, op, listed, listing) ==
    /\ phase[s] = "downstream"
    /\ fanout = NoFanout
    /\ LET r == ListTool(op, listed, listing) IN
       IF r.result # <<>> THEN
           /\ Return(s)
           /\ last' = [op |-> op, args |-> [listed |-> listed], at |-> now,
                       result |-> r.result, calls |-> r.calls]
           /\ UNCHANGED fanout
       ELSE
           /\ fanout' = [NoFanout EXCEPT !.op = op, !.slot = s, !.listed = listed,
                                         !.status = [i \in 1..Len(listed) |-> "queued"]]
           /\ UNCHANGED <<phase, run, last>>
    /\ UNCHANGED <<is_authenticated, error_message, gmail_service, oauth_credentials,
                   store, issued, now, clockSteps, drafts, userLabels, msgLabels, held,
                   granted>>

\* gmail_get_emails_tool and gmail_get_drafts_tool
gmail_get_emails_tool(s, listed, listing) == ListToolBegin(s, "get_emails", listed, listing)
gmail_get_drafts_tool(s, listed, listing) == ListToolBegin(s, "get_drafts", listed, listing)

fanoutFrame ==
    UNCHANGED <<is_authenticated, error_message, gmail_service, oauth_credentials,
                store, issued, phase, run, now, clockSteps, drafts, userLabels,
                msgLabels, held, last, granted>>

\* A worker of the pool takes the next future of the work queue
WorkerStart(i) ==
    /\ fanout.op # "none"
    /\ i \in 1..Len(fanout.status)
    /\ fanout.status[i] = "queued"
    /\ \A j \in 1..(i - 1) : fanout.status[j] # "queued"
    /\ Cardinality(Running(fanout)) < max_workers
    /\ fanout' = [fanout EXCEPT !.status[i] = "running"]
    /\ fanoutFrame

\* _fetch_message_details / _fetch_draft_details returns: the details, or
\* None when the fetch raised
WorkerFinish(i, fetched) ==
    /\ fanout.op # "none"
    /\ i \in Running(fanout)
    /\ fanout' = [fanout EXCEPT !.status[i] = IF fetched THEN "ok" ELSE "failed",
                                !.order = Append(@, i),
                                !.late = IF fanout.entered THEN Append(@, i) ELSE @]
    /\ fanoutFrame

\* The tool enters as_completed(futures): the futures that are complete by
\* then are taken as a set
AsCompletedEnter ==
    /\ fanout.op # "none"
    /\ ~fanout.entered
    /\ fanout' = [fanout EXCEPT !.entered = TRUE, !.snapshot = Completed(fanout),
                                !.early = Completed(fanout)]
    /\ fanoutFrame

\* as_completed yields the future i and the loop appends its result, if any.
\* The futures of the set are yielded first, in no particular order, and then
\* the others as they complete.
AsCompletedYield(i) ==
    /\ fanout.entered
    /\ IF fanout.early # {} THEN i \in fanout.early
       ELSE fanout.late # <<>> /\ i = Head(fanout.late)
    /\ fanout' = [fanout EXCEPT
                     !.early = @ \ {i},
                     !.late = IF fanout.early # {} THEN @ ELSE Tail(@),
                     !.yielded = @ + 1,
                     !.detailed = IF fanout.status[i] = "ok"
                                  THEN Append(@, fanout.listed[i]) ELSE @]
    /\ fanoutFrame

\* A collector that stops as soon as no complete future is left to yield
CollectorDone_noWait(f) == f.entered /\ f.early = {} /\ f.late = <<>>

\* The loop over as_completed ends when every future has been yielded
CollectorDone(f) == f.entered /\ f.yielded = Len(f.listed)

\* The pool is shut down and the tool returns the collected list
ListToolReturn ==
    /\ fanout.op # "none"
    /\ CollectorDone(fanout)
    /\ Return(fanout.slot)
    /\ last' = [op |-> fanout.op, args |-> [listed |-> fanout.listed], at |-> now,
                result |-> [status |-> "success", items |-> fanout.detailed],
                calls |-> <<[api |-> "list"]>>]
    /\ fanout' = NoFanout
    /\ UNCHANGED <<is_authenticated, error_message, gmail_service, oauth_credentials,
                   store, issued, now, clockSteps, drafts, userLabels, msgLabels, held,
                   granted>>

-----------------------------------------------------------------------------
(* Authorization: the callback that stores the credential of a user *)

\* expires_in of the token response, in seconds
GrantLifetimes == {1, CONFIRMATION_TOKEN_VALIDITY_DURATION}

\* credentials_to_json: token, refresh_token, token_uri, client_id,
\* client_secret and scopes; the expiry of the credential is not among them.
\* (sub is the user id under which the record is stored.)
credentials_to_json(credentials) ==
    [sub |-> credentials.sub, token |-> credentials.token,
     refresh_token |-> credentials.refresh_token, well_formed |-> TRUE,
     expiry |-> NoExpiry]

\* db_handler.get_credentials(user_id, by_access_token=False)
get_credentials_of(st, user_id) ==
    IF \E k \in DOMAIN st : st[k].sub = user_id
    THEN st[CHOOSE k \in DOMAIN st : st[k].sub = user_id]
    ELSE NotFound

\* db_handler.delete_credentials(access_token, user_id)
delete_credentials(st, access_token, user_id) ==
    [k \in DOMAIN st \ {access_token} |-> st[k]]

\* db_handler.insert_credentials(user_id, credentials_json), returning key
insert_credentials(st, key, credentials_json) ==
    [k \in DOMAIN st \cup {key} |-> IF k = key THEN credentials_json ELSE st[k]]

\* The body of auth_callback for the user u1, whose lookup token is tokA.
\* current_access_token: from the state parameter, or None; refresh: whether
\* Google returned a refresh token; verify: "ok" or "raise" for the
\* verification of the identity assertion.  Returns the store afterwards and
\* the credential obtained (NoGrant when nothing was stored).
AuthCallback(st, current_access_token, refresh, expires_in, verify, fresh, t) ==
    LET credentials == [key |-> "tokA", sub |-> "u1", token |-> fresh,
                        refresh_token |-> refresh,
                        expiry |-> Seconds(t) + expires_in]
        credentials_json == credentials_to_json(credentials)
        failed == [store |-> st, granted |-> NoGrant, status |-> 500]
        old_credentials == get_credentials_of(st, "u1")
    IN
    IF verify = "raise" THEN failed
    ELSE IF current_access_token # None /\ ~refresh THEN
        IF old_credentials = NotFound THEN failed
        ELSE [store |-> insert_credentials(
                            delete_credentials(st, current_access_token, "u1"), "tokA",
                            [credentials_json EXCEPT
                                !.refresh_token = old_credentials.refresh_token]),
              granted |-> [credentials EXCEPT
                              !.refresh_token = old_credentials.refresh_token],
              status |-> 307]
    ELSE [store |-> insert_credentials(st, "tokA", credentials_json),
          granted |-> credentials, status |-> 307]

\* GET /auth/callback
auth_callback(current_access_token, refresh, expires_in, verify) ==
    /\ Cardinality(issued) < MaxIssued
    /\ LET fresh == Cardinality(issued) + 2
           r == AuthCallback(store, current_access_token, refresh, expires_in, verify,
                             fresh, now)
       IN
       /\ store' = r.store
       /\ granted' = IF r.granted = NoGrant THEN granted ELSE r.granted
       /\ issued' = issued \cup {fresh}
    /\ UNCHANGED <<is_authenticated, error_message, gmail_service, oauth_credentials,
                   phase, run, now, clockSteps, drafts, userLabels, msgLabels, held,
                   last, fanout>>

-----------------------------------------------------------------------------
(* Initial states and specifications *)

InitCommon ==
    /\ is_authenticated = FALSE
    /\ error_message = None
    /\ gmail_service = NoService
    /\ oauth_credentials = NoService
    /\ issued = {}
    /\ phase = [s \in Slots |-> "idle"]
    /\ run = [s \in Slots |-> NoRun]
    /\ now = StartTime * TicksPerSecond
    /\ clockSteps = 0
    /\ held = NoHeld
    /\ last = NoCall
    /\ fanout = NoFanout
    /\ granted = NoGrant

\* Every request is handled to its end before the next one arrives
AllIdle == \A s \in Slots : phase[s] = "idle"

\* The middleware with a folder tool as the downstream handler
InitGuard ==
    /\ InitCommon
    /\ \E r \in StoredRecords : store = ("tokA" :> r) @@ ("tokB" :> RecNoRefresh)
    /\ drafts = DraftIds
    /\ userLabels = UserLabelIds
    /\ msgLabels = ("m1" :> {"INBOX", "IMPORTANT"}) @@ ("m2" :> {"TRASH", Id_L1})

NextGuard ==
    \/ AllIdle /\ \E hdr \in Headers, x \in GuardInputs : dispatch(1, hdr, x)
    \/ DownstreamRaises(1)
    \/ gmail_archive_emails_tool(1, <<"m1">>, NoFailure)
    \/ Tick

SpecGuard == InitGuard /\ [][NextGuard]_vars

\* The deletion tools behind the middleware
FixedStore == ("tokA" :> RecValid) @@ ("tokB" :> RecNoRefresh)
PlainGuard == [lookup |-> "ok", refresh |-> "ok", attach |-> "ok"]

InitConfirm ==
    /\ InitCommon
    /\ store = FixedStore
    /\ drafts = DraftIds
    /\ userLabels = UserLabelIds
    /\ msgLabels = ("m1" :> {"INBOX", Id_L1}) @@ ("m2" :> {"TRASH"})

PresentableTokens == {<<>>, held.token} \cup ForgedTokens
ApiOutcomesFor(tok) == IF tok = <<>> THEN {"ok"} ELSE ApiOutcomes

NextConfirm ==
    \/ AllIdle /\ \E hdr \in {"tokA", None} : dispatch(1, hdr, PlainGuard)
    \/ \E id \in RequestIds, tok \in PresentableTokens : \E api \in ApiOutcomesFor(tok) :
           gmail_delete_draft_tool(1, id, tok, api)
    \/ \E id \in RequestIds, tok \in PresentableTokens : \E api \in ApiOutcomesFor(tok) :
           gmail_delete_label_tool(1, id, tok, api)
    \/ Tick

SpecConfirm == InitConfirm /\ [][NextConfirm]_vars

\* The folder tools behind the middleware
InitFolders ==
    /\ InitCommon
    /\ store = FixedStore
    /\ drafts = DraftIds
    /\ userLabels = UserLabelIds
    /\ \E l1 \in SUBSET (LabelIds \ {"SPAM"}), l2 \in {{"INBOX"}, {"TRASH", "IMPORTANT"}} :
           msgLabels = ("m1" :> l1) @@ ("m2" :> l2)

NextFolders ==
    \/ AllIdle /\ dispatch(1, "tokA", PlainGuard)
    \/ \E ids \in MessageLists, name \in TargetNames : \E fail \in Failures(ids) :
           gmail_move_emails_tool(1, ids, name, fail)
    \/ \E ids \in MessageLists : \E fail \in Failures(ids) :
           gmail_archive_emails_tool(1, ids, fail)

SpecFolders == InitFolders /\ [][NextFolders]_vars

\* Two requests in flight at once, for two users with valid credentials:
\* the guard run of one request and the handler of the other interleave at
\* the await of call_next.
RecValidOther == [sub |-> "u2", token |-> 1, refresh_token |-> TRUE, well_formed |-> TRUE, expiry |-> NoExpiry]

InitConcurrent ==
    /\ InitCommon
    /\ store = ("tokA" :> RecValid) @@ ("tokB" :> RecValidOther)
    /\ drafts = DraftIds
    /\ userLabels = UserLabelIds
    /\ msgLabels = ("m1" :> {"INBOX", "IMPORTANT"}) @@ ("m2" :> {"TRASH", Id_L1})

NextConcurrent ==
    \/ \E s \in Slots, hdr \in {"tokA", "tokB", None} : dispatch(s, hdr, PlainGuard)
    \/ \E s \in Slots, name \in {"INBOX", "TRASH"} :
           gmail_move_emails_tool(s, <<"m1">>, name, NoFailure)
    \/ \E s \in Slots : gmail_archive_emails_tool(s, <<"m2">>, NoFailure)

SpecConcurrent == InitConcurrent /\ [][NextConcurrent]_vars

\* Every mailbox operation behind every outcome of the guard
GateToken == B64Encode(Utf8[Id_d1] \o <<Colon, 57, 57, 57, 57>>)
GateLabelToken == B64Encode(Utf8[Id_L1] \o <<Colon, 57, 57, 57, 57>>)

NextGate ==
    \/ AllIdle /\ \E hdr \in Headers, x \in GuardInputs : dispatch(1, hdr, x)
    \/ \E tok \in {<<>>, GateToken} : gmail_delete_draft_tool(1, Id_d1, tok, "ok")
    \/ \E tok \in {<<>>, GateLabelToken} : gmail_delete_label_tool(1, Id_L1, tok, "ok")
    \/ gmail_move_emails_tool(1, <<"m1">>, "TRASH", NoFailure)
    \/ gmail_archive_emails_tool(1, <<"m2">>, NoFailure)
    \/ gmail_set_emails_as_spam_tool(1, <<"m1">>, TRUE, None, NoFailure)
    \/ gmail_manage_labels_tool(1, <<"m2">>, <<"IMPORTANT">>, "add", NoFailure)

SpecGate == InitGuard /\ [][NextGate]_vars

\* The spam tool and the label tool behind the middleware
LabelLists == {<<>>, <<"IMPORTANT">>, <<"NoSuchLabel">>, <<"Work", "NoSuchLabel">>}
Actions == {"add", "remove", "toggle"}
NewLabels == {None, "IMPORTANT", "Work"}
LabelledLists == {<<>>, <<"m1">>, <<"m1", "m2">>}

InitLabels ==
    /\ InitCommon
    /\ store = FixedStore
    /\ drafts = DraftIds
    /\ userLabels = UserLabelIds
    /\ \E l1 \in {{"INBOX"}, {"INBOX", "IMPORTANT"}, {"SPAM"}} :
           msgLabels = ("m1" :> l1) @@ ("m2" :> {"INBOX", Id_L1})

NextLabels ==
    \/ AllIdle /\ \E hdr \in {"tokA", None} : dispatch(1, hdr, PlainGuard)
    \/ \E ids \in LabelledLists, mark \in BOOLEAN, new_label \in NewLabels :
       \E fail \in ModifyFailures(ids) :
           gmail_set_emails_as_spam_tool(1, ids, mark, new_label, fail)
    \/ \E ids \in LabelledLists, labels \in LabelLists, action \in Actions :
       \E fail \in ModifyFailures(ids) \cup [call : {"list"}, at : {0}, kind : {"http", "other"}] :
           gmail_manage_labels_tool(1, ids, labels, action, fail)

SpecLabels == InitLabels /\ [][NextLabels]_vars

\* Two requests that carry the same expired credential.  The guard makes its
\* calls without awaiting, so a guard run is one step; the requests
\* interleave at the await of call_next.
InitRefresh ==
    /\ InitCommon
    /\ store = ("tokA" :> RecExpired) @@ ("tokB" :> RecValidOther)
    /\ drafts = DraftIds
    /\ userLabels = UserLabelIds
    /\ msgLabels = ("m1" :> {"INBOX", "IMPORTANT"}) @@ ("m2" :> {"TRASH", Id_L1})

NextRefresh ==
    \/ \E s \in Slots, x \in GuardInputs : dispatch(s, "tokA", x)
    \/ \E s \in Slots : gmail_archive_emails_tool(s, <<"m1">>, NoFailure)
    \/ \E s \in Slots : DownstreamRaises(s)

SpecRefresh == InitRefresh /\ [][NextRefresh]_vars

\* Successive placements of single messages, none of which fails
NextPlacement ==
    \/ AllIdle /\ dispatch(1, "tokA", PlainGuard)
    \/ \E m \in Msgs, name \in TargetNames :
           gmail_move_emails_tool(1, <<m>>, name, NoFailure)
    \/ \E m \in Msgs : gmail_archive_emails_tool(1, <<m>>, NoFailure)

SpecPlacement == InitFolders /\ [][NextPlacement]_vars

\* The list tools behind the middleware
NextFanout ==
    \/ AllIdle /\ \E hdr \in {"tokA", None} : dispatch(1, hdr, PlainGuard)
    \/ \E listed \in Listings, listing \in {"ok", "http", "other"} :
           gmail_get_emails_tool(1, listed, listing)
    \/ \E listed \in Listings, listing \in {"ok", "http", "other"} :
           gmail_get_drafts_tool(1, listed, listing)
    \/ \E i \in 1..MaxListed : WorkerStart(i)
    \/ \E i \in 1..MaxListed, fetched \in BOOLEAN : WorkerFinish(i, fetched)
    \/ AsCompletedEnter
    \/ \E i \in 1..MaxListed : AsCompletedYield(i)
    \/ ListToolReturn

SpecFanout == InitConfirm /\ [][NextFanout]_vars

\* Authorization followed by requests
InitAuthorize ==
    /\ InitCommon
    /\ store = ("tokB" :> RecNoRefresh)
    /\ drafts = DraftIds
    /\ userLabels = UserLabelIds
    /\ msgLabels = ("m1" :> {"INBOX", "IMPORTANT"}) @@ ("m2" :> {"TRASH", Id_L1})

NextAuthorize ==
    \/ AllIdle /\ \E cur \in {None, "tokA"}, refresh \in BOOLEAN,
                     expires_in \in GrantLifetimes, verify \in {"ok", "raise"} :
                     auth_callback(cur, refresh, expires_in, verify)
    \/ AllIdle /\ \E hdr \in {"tokA", None}, x \in GuardInputs : dispatch(1, hdr, x)
    \/ gmail_archive_emails_tool(1, <<"m1">>, NoFailure)
    \/ Tick

SpecAuthorize == InitAuthorize /\ [][NextAuthorize]_vars

Init == InitGuard
Next == NextGuard
Spec == Init /\ [][Next]_vars

-----------------------------------------------------------------------------
(* The middleware never rejects *)

\* C1: whatever the header check, the store lookup, the credential parse,
\* the validity check, the refresh and the construction of the Gmail service
\* do, the middleware calls the downstream handler and returns what the
\* downstream produced; it never answers by itself.
C1_FailOpen ==
    \A s \in Slots :
        /\ run[s].response \in {"none", "downstream", "downstream_exception"}
        /\ run[s].terminal # "none" => run[s].callNext >= 1
        /\ (run[s].terminal # "none" /\ phase[s] = "idle")
               => run[s].response \in {"downstream", "downstream_exception"}

C1_Witness ==
    /\ run[1].terminal = "AttachFailed"
    /\ phase[1] = "idle"
    /\ run[1].response = "downstream"

-----------------------------------------------------------------------------
(* The two-phase deletion *)

IsDelete(c) == c.op \in {"delete_draft", "delete_label"}

\* The tool call that ends the request of slot 1 in this step
Called == phase[1] = "downstream" /\ phase'[1] = "idle" /\ last'.op # "none"

\* The request was authenticated and the Gmail service is there
Authenticated == is_authenticated /\ gmail_service # NoService

\* What a token text says: its payload, as the library calls decode it
Payload(tok) ==
    LET raw == B64Decode(tok)
        text == IF raw.ok THEN Utf8Decode(raw.v) ELSE Raised
    IN  IF text.ok THEN Ok(SplitOn(text.v, Colon)) ELSE Raised

\* tok decodes to (id, integer timestamp)
Decodes(tok) ==
    /\ Payload(tok).ok
    /\ Len(Payload(tok).v) = 2
    /\ ParseInt(Payload(tok).v[2]).ok
TokenId(tok) == Payload(tok).v[1]
IssuedAt(tok) == ParseInt(Payload(tok).v[2]).v

\* ticks between the issue second of tok and clock t
Age(tok, t) == t - IssuedAt(tok) * TicksPerSecond
Window == CONFIRMATION_TOKEN_VALIDITY_DURATION * TicksPerSecond

\* C2: a call of delete_draft or delete_label that presents a token which is
\* undecodable, expired or made for another id returns an error, issues no
\* delete call and leaves the mailbox as it was.
C2_NoDeleteOnBadToken ==
    [][ (Called /\ IsDelete(last') /\ last'.args.token # <<>>
          /\ LET tok == last'.args.token IN
                \/ ~Decodes(tok)
                \/ Age(tok, now) > Window
                \/ TokenId(tok) # Utf8[last'.args.id])
        => /\ "error" \in DOMAIN last'.result
           /\ last'.calls = <<>>
           /\ UNCHANGED mailVars ]_vars

C2_Witness ==
    /\ last.op = "delete_label"
    /\ Authenticated
    /\ last.args.id = Id_L1
    /\ last.args.token = held.token
    /\ held.id = Id_d1
    /\ last.at - held.at <= Window
    /\ "error" \in DOMAIN last.result
    /\ Id_L1 \in userLabels

\* C3: an authenticated call without a token returns the first-phase record
\* with a token that decodes to the id and the second of the call, and issues
\* no delete call.
C3_MintOnly ==
    [][ (Called /\ IsDelete(last') /\ Authenticated /\ last'.args.token = <<>>)
        => /\ DOMAIN last'.result = {"confirmation_token", "action", "message"}
           /\ last'.result.action = "confirm_deletion"
           /\ LET tok == last'.result.confirmation_token
                  id == Utf8[last'.args.id]
                  raw == B64Decode(tok)
              IN  /\ raw.ok
                  /\ Len(raw.v) > Len(id) + 1
                  /\ SubSeq(raw.v, 1, Len(id)) = id
                  /\ raw.v[Len(id) + 1] = Colon
                  /\ ParseInt(SubSeq(raw.v, Len(id) + 2, Len(raw.v)))
                         = Ok(now \div TicksPerSecond)
           /\ last'.calls = <<>>
           /\ UNCHANGED mailVars ]_vars

C3_Witness ==
    /\ last.op = "delete_draft"
    /\ Authenticated
    /\ last.args.token = <<>>
    /\ last.args.id = Id_ab
    /\ last.at = StartTime * TicksPerSecond + 1
    /\ "confirmation_token" \in DOMAIN last.result

\* C4: the token returned by the first phase for an id, presented with the
\* same id no later than 5 minutes after it was minted, passes validation
\* and the delete call is made.
C4_RoundTrip ==
    (/\ IsDelete(last)
     /\ Authenticated
     /\ held.token # <<>>
     /\ last.args.token = held.token
     /\ last.args.id = held.id
     /\ last.at - held.at <= Window)
    => last.calls # <<>>

\* C5: the delete call is made only for a token that carries exactly the
\* requested id and whose issue time is at most 5 minutes, and not less than
\* zero, before the call.
C5_AcceptedOnlyInWindow ==
    (IsDelete(last) /\ last.calls # <<>>)
    => /\ Decodes(last.args.token)
       /\ TokenId(last.args.token) = Utf8[last.args.id]
       /\ Age(last.args.token, last.at) >= 0
       /\ Age(last.args.token, last.at) <= Window

\* C6: a presented token is classified in a fixed order, with three different
\* messages: not decodable to (id, integer) is invalid; else older than 5
\* minutes is expired, whatever its id; else another id is a mismatch.
C6_FailureOrder ==
    (IsDelete(last) /\ Authenticated /\ last.args.token # <<>>)
    => LET tok == last.args.token
           mismatchMsg == IF last.op = "delete_draft" THEN MsgMismatchDraft
                          ELSE MsgMismatchLabel
       IN  /\ Cardinality({MsgInvalid, MsgExpired, mismatchMsg}) = 3
           /\ ~Decodes(tok) => last.result.error = MsgInvalid
           /\ (Decodes(tok) /\ Age(tok, last.at) > Window)
                  => last.result.error = MsgExpired
           /\ (Decodes(tok) /\ Age(tok, last.at) <= Window
                  /\ TokenId(tok) # Utf8[last.args.id])
                  => last.result.error = mismatchMsg

C6_Witness ==
    /\ last.op = "delete_label"
    /\ Authenticated
    /\ last.args.id = Id_L1
    /\ Decodes(last.args.token)
    /\ TokenId(last.args.token) = Utf8[Id_d1]
    /\ Age(last.args.token, last.at) > Window
    /\ last.result.error = MsgExpired

\* C7: every result of delete_draft and delete_label is a record with status
\* "success" or "error", or the first-phase record.
C7_UniformShape ==
    IsDelete(last)
    => \/ /\ "status" \in DOMAIN last.result
          /\ last.result.status \in {"success", "error"}
       \/ /\ DOMAIN last.result = {"confirmation_token", "action", "message"}
          /\ last.result.action = "confirm_deletion"

-----------------------------------------------------------------------------
(* Folder placement *)

\* The folder labels: the system allow-list and every user label
FolderLabels ==
    {l \in SystemLabelIds : l \in system_folder_labels} \cup userLabels

Succeeded(c) == "status" \in DOMAIN c.result /\ c.result.status = "success"
Listed(c) == {c.args.message_ids[i] : i \in 1..Len(c.args.message_ids)}
TargetId(c) == CHOOSE l \in LabelIds : LabelName[l] = c.args.new_folder_label
ModifyCalls(c) == SelectSeq(c.calls, LAMBDA call : call.api = "messages.modify")

\* C8 as claimed: after a successful move to any label of the catalog, folder
\* label or not, the folder labels of every moved message are exactly the
\* target.
C8_MoveLeavesExactlyTarget ==
    (last.op = "move" /\ Succeeded(last))
    => \A m \in Listed(last) : msgLabels[m] \cap FolderLabels = {TargetId(last)}

\* C8, amended: after a successful move the target is on every moved message
\* and the folder labels of the message are the target when the target is a
\* folder label, and none when it is not.
C8_MovePostcondition ==
    (last.op = "move" /\ Succeeded(last))
    => \A m \in Listed(last) :
          /\ TargetId(last) \in msgLabels[m]
          /\ msgLabels[m] \cap FolderLabels = {TargetId(last)} \cap FolderLabels

C8_Witness ==
    /\ last.op = "move"
    /\ Succeeded(last)
    /\ last.args.message_ids = <<"m1">>
    /\ last.args.new_folder_label = "INBOX"
    /\ ModifyCalls(last)[1].removeLabelIds = {"TRASH"}
    /\ msgLabels["m1"] \cap FolderLabels = {"INBOX"}

-----------------------------------------------------------------------------
(* Repeated moves, unknown targets and failures inside a batch *)

\* The move of call c applied once more to the mailbox it left
MovedAgain(c) ==
    FolderLoop(c.args.message_ids, 1, msgLabels', <<[api |-> "labels.list"]>>,
               NoFailure, {TargetId(c)}, MsgMoved[c.args.new_folder_label])

\* C11 as claimed: a successful move applied again changes no label, removes
\* nothing, and after each of the two applications the folder labels of every
\* moved message are exactly the target, for any target of the catalog.
C11_MoveTwiceExactlyTarget ==
    [][ (Called /\ last'.op = "move" /\ Succeeded(last'))
        => LET again == MovedAgain(last') IN
           /\ again.labels = msgLabels'
           /\ \A k \in 1..Len(ModifyCalls(again)) :
                  ModifyCalls(again)[k].removeLabelIds = {}
           /\ \A m \in Listed(last') :
                  /\ msgLabels'[m] \cap FolderLabels = {TargetId(last')}
                  /\ again.labels[m] \cap FolderLabels = {TargetId(last')} ]_vars

\* C11, amended: a successful move applied again changes no label and its
\* remove lists are empty, so the target stays; after each application the
\* folder labels of every moved message are the target when the target is a
\* folder label, and none when it is not.
C11_MoveIdempotent ==
    [][ (Called /\ last'.op = "move" /\ Succeeded(last'))
        => LET again == MovedAgain(last') IN
           /\ Succeeded(again)
           /\ again.labels = msgLabels'
           /\ Len(ModifyCalls(again)) = Len(last'.args.message_ids)
           /\ \A k \in 1..Len(ModifyCalls(again)) :
                  /\ ModifyCalls(again)[k].removeLabelIds = {}
                  /\ ModifyCalls(again)[k].addLabelIds = {TargetId(last')}
           /\ \A m \in Listed(last') :
                  /\ TargetId(last') \in again.labels[m]
                  /\ msgLabels'[m] \cap FolderLabels = {TargetId(last')} \cap FolderLabels
                  /\ again.labels[m] \cap FolderLabels
                         = {TargetId(last')} \cap FolderLabels ]_vars

\* A second move in a row: the message is where the first one put it and
\* the call removed nothing
C11_Witness ==
    /\ last.op = "move"
    /\ Succeeded(last)
    /\ last.args.message_ids = <<"m2">>
    /\ last.args.new_folder_label = "Work"
    /\ ModifyCalls(last)[1].removeLabelIds = {}
    /\ msgLabels["m2"] = {Id_L1}

\* The names of the label catalog
CatalogNames == {LabelName[l] : l \in SystemLabelIds \cup userLabels}

\* The call got past the access check and the catalog fetch
Fetched(c) == Authenticated /\ c.fail.call # "list"

\* C12: a move to a name that is not in the catalog returns the error that
\* names the label, makes no call after the catalog fetch and changes no
\* label of any message, whatever the list of message ids.
C12_UnknownFolder ==
    [][ (Called /\ last'.op = "move" /\ Fetched(last')
          /\ last'.args.new_folder_label \notin CatalogNames)
        => /\ last'.result = [status |-> "error",
                              error |-> ErrLabelNotFound[last'.args.new_folder_label]]
           /\ last'.calls = <<[api |-> "labels.list"]>>
           /\ UNCHANGED mailVars ]_vars

C12_Witness ==
    /\ last.op = "move"
    /\ Authenticated
    /\ last.fail = NoFailure
    /\ last.args.message_ids = <<"m1", "m2">>
    /\ last.args.new_folder_label = "NoSuchLabel"
    /\ last.result.error = "Label 'NoSuchLabel' not found."
    /\ last.calls = <<[api |-> "labels.list"]>>

\* The call reached the loop and a call on the message at fail.at failed
FailedInLoop(c) ==
    /\ c.op \in {"move", "archive"}
    /\ Fetched(c)
    /\ c.op = "move" => c.args.new_folder_label \in CatalogNames
    /\ c.fail.call \in {"get", "modify"}

\* What is left of the batch of call c that failed at position fail.at: the
\* calls are the get and the modify of each message in list order up to the
\* failed call, the messages before the failed one have their change, and
\* every other message is as it was.
BatchAborted(c) ==
    LET ids == c.args.message_ids
        k == c.fail.at
        added == IF c.op = "move" THEN {TargetId(c)} ELSE {}
        earlier == {ids[j] : j \in 1..(k - 1)}
    IN  /\ Len(c.calls) = 2 * (k - 1) + (IF c.fail.call = "get" THEN 2 ELSE 3)
        /\ \A j \in 2..Len(c.calls) :
               /\ c.calls[j].id = ids[j \div 2]
               /\ c.calls[j].api = IF j % 2 = 0 THEN "messages.get" ELSE "messages.modify"
        /\ \A m \in Msgs :
               msgLabels'[m] = IF m \in earlier
                               THEN (msgLabels[m] \ (FolderLabels \ added)) \cup added
                               ELSE msgLabels[m]

\* C13 as claimed: the failed batch stops at the failed message and every
\* failure of a read or of a modify is returned with status error and a text
\* that names the message.
C13_AbortNamesMessage ==
    [][ (Called /\ FailedInLoop(last'))
        => /\ last'.result = [status |-> "error",
                              error |-> ErrFailedToModify[
                                  last'.args.message_ids[last'.fail.at]]]
           /\ BatchAborted(last') ]_vars

\* C13, amended: the failed batch stops at the failed message with status
\* error; the text names the message when the failure is an HttpError and is
\* the generic "Unexpected error" for any other exception.
C13_BatchAbort ==
    [][ (Called /\ FailedInLoop(last'))
        => /\ last'.result =
                  [status |-> "error",
                   error |-> IF last'.fail.kind = "http"
                             THEN ErrFailedToModify[last'.args.message_ids[last'.fail.at]]
                             ELSE ErrUnexpected]
           /\ BatchAborted(last') ]_vars

C13_Witness ==
    /\ last.op = "move"
    /\ Authenticated
    /\ last.args.message_ids = <<"m1", "m2">>
    /\ last.args.new_folder_label = "TRASH"
    /\ last.fail = [call |-> "modify", at |-> 2, kind |-> "http"]
    /\ last.result.error = "Failed to modify email m2"
    /\ ModifyCalls(last)[1].removeLabelIds = {"INBOX", Id_L1}
    /\ msgLabels["m1"] \cap FolderLabels = {"TRASH"}
    /\ msgLabels["m2"] = {"INBOX"}

-----------------------------------------------------------------------------
(* The terminal states of a guard run *)

\* The step is the guard run of the request of slot s, up to call_next
Guarded(s) == phase[s] = "idle" /\ phase'[s] = "downstream"

\* The record that the header of run r resolves to
Resolved(r) == r.header \in DOMAIN store /\ r.raised # "lookup"
StoredFor(r) == store[r.header]

\* C14: the guard run of a request without the access-token header ends
\* unauthenticated with the message that asks for the header, and reads no
\* record, calls no token endpoint and writes nothing to the store.
C14_NoHeader ==
    [][ \A s \in Slots : (Guarded(s) /\ run'[s].header = None)
        => /\ run'[s].terminal = "NoTokenHeader"
           /\ ~is_authenticated'
           /\ run'[s].msg = MsgNoHeader
           /\ error_message' = MsgNoHeader
           /\ run'[s].lookups = 0
           /\ run'[s].exchanges = 0
           /\ run'[s].writes = 0
           /\ UNCHANGED <<store, issued>> ]_vars

\* A request without header after a request that was authenticated
C14_Witness ==
    /\ phase[1] = "downstream"
    /\ run[1].header = None
    /\ run[1].terminal = "NoTokenHeader"
    /\ gmail_service # NoService
    /\ ~is_authenticated
    /\ error_message = MsgNoHeader

\* The stored record of run r parses, has an access value and is not expired
ResolvesValid(r) ==
    /\ Resolved(r)
    /\ StoredFor(r).well_formed
    /\ StoredFor(r).token # NoToken
    /\ (StoredFor(r).expiry = NoExpiry \/ now < StoredFor(r).expiry * TicksPerSecond)

\* The run neither exchanged nor wrote
NoRefresh(r) ==
    /\ r.exchanges = 0
    /\ r.writes = 0
    /\ UNCHANGED <<store, issued>>

\* The handle built from the stored credential is published
Published(r) ==
    /\ is_authenticated'
    /\ gmail_service' = [sub |-> StoredFor(r).sub, token |-> StoredFor(r).token]
    /\ oauth_credentials' = gmail_service'

\* C15 as claimed: a run whose header resolves to a parsable, unexpired,
\* valid credential calls no token endpoint, writes nothing, publishes the
\* handle and ends authenticated, in every case.
C15_ValidAuthenticates ==
    [][ \A s \in Slots : (Guarded(s) /\ ResolvesValid(run'[s]))
        => NoRefresh(run'[s]) /\ Published(run'[s]) ]_vars

\* C15, amended: such a run calls no token endpoint and writes nothing; it
\* publishes the handle and ends authenticated when the construction of the
\* handle returns, and ends unauthenticated with the message of the outer
\* except, publishing nothing, when the construction raises.
C15_ValidNoRefresh ==
    [][ \A s \in Slots : (Guarded(s) /\ ResolvesValid(run'[s]))
        => /\ NoRefresh(run'[s])
           /\ run'[s].raised \in {"none", "attach"}
           /\ run'[s].raised = "none" => Published(run'[s])
           /\ run'[s].raised = "attach"
                  => /\ ~is_authenticated'
                     /\ error_message' = MsgCaught
                     /\ UNCHANGED <<gmail_service, oauth_credentials>> ]_vars

\* A credential with an expiry that is still ahead
C15_Witness ==
    /\ phase[1] = "downstream"
    /\ run[1].header = "tokA"
    /\ run[1].terminal = "Valid"
    /\ run[1].exchanges = 0
    /\ store["tokA"] = RecExpiring
    /\ now = StartTime * TicksPerSecond + 1
    /\ is_authenticated
    /\ gmail_service = [sub |-> "u1", token |-> 1]

\* The stored record of run r parses, is expired and has a refresh token
Refreshable(r) ==
    /\ Resolved(r)
    /\ StoredFor(r).well_formed
    /\ StoredFor(r).expiry # NoExpiry
    /\ now >= StoredFor(r).expiry * TicksPerSecond
    /\ StoredFor(r).refresh_token

\* C16: when the exchange, the verification and the extraction of the
\* subject succeed for an expired credential with a refresh token, the guard
\* writes the new access value to the records of the asserted subject and to
\* no other record; the context is authenticated only with that write done,
\* with a handle that carries the written value, and it is authenticated
\* whenever nothing raised.
C16_RefreshWritesThenPublishes ==
    [][ \A s \in Slots :
          (Guarded(s) /\ Refreshable(run'[s])
             /\ run'[s].raised \notin {"exchange", "verify", "sub"})
          => LET r == run'[s]
                 minted == issued' \ issued
                 written == \E v \in minted : \A k \in DOMAIN store :
                     store'[k] = IF store[k].sub = r.user_id
                                 THEN [store[k] EXCEPT !.token = v]
                                 ELSE store[k]
             IN  /\ r.exchanges = 1
                 /\ r.writes = 1
                 /\ r.user_id = IdInfoSub(StoredFor(r))
                 /\ Cardinality(minted) = 1
                 /\ r.raised # "write" => written
                 /\ r.raised = "none" => is_authenticated'
                 /\ is_authenticated'
                        => /\ written
                           /\ gmail_service'.sub = r.user_id
                           /\ gmail_service'.token \in minted
                           /\ store'[r.header].token = gmail_service'.token ]_vars

C16_Witness ==
    /\ phase[1] = "downstream"
    /\ run[1].header = "tokA"
    /\ run[1].terminal = "Valid"
    /\ run[1].exchanges = 1
    /\ run[1].writes = 1
    /\ run[1].user_id = "u1"
    /\ store["tokA"].token = 2
    /\ store["tokB"].token = 1
    /\ is_authenticated
    /\ gmail_service = [sub |-> "u1", token |-> 2]

\* C17: when the exchange, the verification, the extraction of the subject
\* or the store write raises, the run ends in RefreshFailed: unauthenticated,
\* with the message of the refresh branch recorded, with no handle published
\* by this run, and with the downstream handler called.
C17_RefreshFailed ==
    [][ \A s \in Slots :
          (Guarded(s) /\ Refreshable(run'[s])
             /\ run'[s].raised \in {"exchange", "verify", "sub", "write"})
          => /\ run'[s].terminal = "RefreshFailed"
             /\ ~is_authenticated'
             /\ run'[s].msg = MsgAuthAgain
             /\ error_message' = MsgAuthAgain
             /\ UNCHANGED <<gmail_service, oauth_credentials>>
             /\ run'[s].callNext = 1
             /\ run'[s].response = "none" ]_vars

C17_Witness ==
    /\ phase[1] = "downstream"
    /\ run[1].header = "tokA"
    /\ run[1].terminal = "RefreshFailed"
    /\ run[1].raised = "write"
    /\ run[1].callNext = 1
    /\ ~is_authenticated
    /\ error_message = MsgAuthAgain
    /\ gmail_service = NoService

\* The terminal states in which the request goes on unauthenticated
NonValidTerminals ==
    {"NoTokenHeader", "StoreLookupFailed", "CredentialMissing", "ParseFailed",
     "RefreshFailed", "InvalidUnrefreshable"}

\* The request of slot s is at its first call of the downstream handler
AtHandler(s) == phase[s] = "downstream" /\ run[s].callNext = 1

\* C18: when a guard run has ended in a terminal state other than Valid, the
\* context holds a message that this run recorded, and the access check of
\* the handler returns the error result with that message.
C18_FailureMessage ==
    \A s \in Slots :
        (AtHandler(s) /\ run[s].terminal \in NonValidTerminals)
        => /\ run[s].msg # None
           /\ error_message = run[s].msg
           /\ check_access = [status |-> "error", error |-> run[s].msg]

-----------------------------------------------------------------------------
(* Requests in flight at once *)

\* C19: whatever the interleaving of the requests in flight, the access
\* check made by the handler of a request returns what the guard run of that
\* request produced: nothing after a Valid run, and else the error result
\* with the message of that run.
C19_RequestIsolation ==
    \A s \in Slots :
        AtHandler(s)
        => check_access = IF run[s].terminal = "Valid" THEN <<>>
                          ELSE [status |-> "error", error |-> run[s].msg]

\* The tool call that ends the request of slot s in this step
CalledBy(s) == phase[s] = "downstream" /\ phase'[s] = "idle" /\ last'.op # "none"

\* C20: a handler that calls the mailbox API does so for a request whose own
\* guard run was Valid, with the service and the credential built from the
\* record that this request's header resolves to.
C20_HandleIsolation ==
    [][ \A s \in Slots : (CalledBy(s) /\ last'.calls # <<>>)
        => /\ run[s].terminal = "Valid"
           /\ gmail_service = [sub |-> StoredFor(run[s]).sub,
                               token |-> StoredFor(run[s]).token]
           /\ oauth_credentials = gmail_service ]_vars

-----------------------------------------------------------------------------
(* The access check in front of every operation *)

\* The error result of the access check in the current context
AuthError ==
    [status |-> "error",
     error |-> IF error_message = None THEN MsgDefault ELSE error_message]

\* C21: when the guard run of the request has ended in a terminal state other
\* than Valid, the operation that the request calls (move, archive,
\* delete_draft, delete_label, set_emails_as_spam, manage_labels) returns the
\* authentication error, makes no mailbox API call, changes nothing in the
\* mailbox, and neither mints nor validates a confirmation token.
C21_AuthGate ==
    [][ (Called /\ run[1].terminal # "Valid" /\ run[1].callNext = 1)
        => /\ last'.result = AuthError
           /\ last'.calls = <<>>
           /\ UNCHANGED mailVars
           /\ held' = held ]_vars

\* A deletion with an acceptable token is refused after a failed guard run
\* although the service of an earlier request is still in the context.
C21_Witness ==
    /\ last.op = "delete_draft"
    /\ last.args.token = GateToken
    /\ ValidateToken(GateToken, Id_d1, last.at) = "ok"
    /\ run[1].terminal \in NonValidTerminals
    /\ gmail_service # NoService
    /\ last.result = AuthError
    /\ last.calls = <<>>
    /\ Id_d1 \in drafts

-----------------------------------------------------------------------------
(* Replay and statelessness of the confirmation token *)

\* The presented token carries the requested id and an issue second that is
\* at most the validity duration before clock t
InWindowFor(tok, id, t) ==
    /\ Decodes(tok)
    /\ TokenId(tok) = Utf8[id]
    /\ Age(tok, t) <= Window

DeleteApi(c) == IF c.op = "delete_draft" THEN "drafts.delete" ELSE "labels.delete"

\* C22: use does not invalidate a token.  Every authenticated call that
\* presents a token for the requested id within 5 minutes of the issue time
\* the token carries passes validation and invokes the delete action, whatever
\* calls were made before: also when an earlier call accepted the same token
\* and the resource is already deleted.  The call records nothing about the
\* token.
C22_Replay ==
    [][ (/\ Called /\ IsDelete(last') /\ Authenticated
         /\ last'.args.token # <<>>
         /\ InWindowFor(last'.args.token, last'.args.id, now))
        => /\ last'.calls = <<[api |-> DeleteApi(last'), id |-> last'.args.id]>>
           /\ "status" \in DOMAIN last'.result
           /\ held' = held ]_vars

\* The minted token is presented again after the draft it was used on is
\* gone: the delete call is made again and the mailbox refuses it.
C22_Witness ==
    /\ last.op = "delete_draft"
    /\ last.args.id = Id_d1
    /\ held.id = Id_d1
    /\ last.args.token = held.token
    /\ Id_d1 \notin drafts
    /\ last.calls = <<[api |-> "drafts.delete", id |-> Id_d1]>>
    /\ last.result = [status |-> "error", error |-> "HttpError"]

\* C23: whether a presented token is accepted is decided by the requested
\* id, the token and the clock alone: the delete call is made exactly when the
\* token decodes to the requested id and an issue second at most 5 minutes
\* back, whichever first-phase calls were made before and whether or not the
\* token was ever minted.
C23_Stateless ==
    (IsDelete(last) /\ Authenticated /\ last.args.token # <<>>)
    => (last.calls # <<>> <=> InWindowFor(last.args.token, last.args.id, last.at))

\* A token that no first-phase call has ever returned is accepted
C23_Witness ==
    /\ IsDelete(last)
    /\ held = NoHeld
    /\ last.args.token \in ForgedTokens
    /\ InWindowFor(last.args.token, last.args.id, last.at)
    /\ last.calls # <<>>
    /\ Id_d1 \notin drafts

-----------------------------------------------------------------------------
(* Sequences of placements *)

\* The number of successive calls on one message that are compared
MaxCalls == 2

\* A successful call on one message: a move to a label of the catalog, or an
\* archive
PlacementSeqs(targets) ==
    UNION { [1..n -> [op : {"move"}, target : targets] \cup {[op |-> "archive"]}] :
            n \in 1..MaxCalls }

\* The labels after the call p on the message m alone succeeds
Placed(labels, m, p) ==
    FolderLoop(<<m>>, 1, labels, <<>>, NoFailure,
               IF p.op = "move" THEN {p.target} ELSE {}, MsgArchived).labels

RECURSIVE ApplySeq(_, _, _)
\* The labels after the calls of seq on the message m, one after the other
ApplySeq(labels, m, seq) ==
    IF seq = <<>> THEN labels
    ELSE ApplySeq(Placed(labels, m, Head(seq)), m, Tail(seq))

\* The targets of the moves of seq that are not folder labels
NonFolderTargets(seq) ==
    {seq[i].target : i \in {j \in 1..Len(seq) : seq[j].op = "move"}} \ FolderLabels

LastOf(seq) == seq[Len(seq)]

\* C24 as claimed: after any sequence of successful moves and archives of a
\* message, to any labels of the catalog, its folder labels are the target of
\* the last call when that is a move and none when it is an archive, and its
\* other labels are those it had before the sequence.
C24_LastWinsAnyTarget ==
    \A m \in Msgs : \A seq \in PlacementSeqs(CatalogIds) :
        LET final == ApplySeq(msgLabels, m, seq)[m] IN
        /\ final \cap FolderLabels =
              IF LastOf(seq).op = "move" THEN {LastOf(seq).target} ELSE {}
        /\ final \ FolderLabels = msgLabels[m] \ FolderLabels

\* C24: after any sequence of successful moves and archives of a message,
\* to any labels of the catalog, its folder labels are the target of the last
\* call when that is a move to a folder label, and none when it is an archive
\* or a move to a label that is not a folder label; its other labels are those
\* it had before the sequence together with the non-folder targets of the
\* moves.  Moving to TRASH and then to INBOX, and archiving and then moving to
\* INBOX, both end with the folder labels {INBOX}.
C24_LastPlacementWins ==
    \A m \in Msgs :
        /\ \A seq \in PlacementSeqs(CatalogIds) :
              LET final == ApplySeq(msgLabels, m, seq)[m] IN
              /\ final \cap FolderLabels =
                    IF LastOf(seq).op = "move"
                    THEN {LastOf(seq).target} \cap FolderLabels ELSE {}
              /\ final \ FolderLabels =
                    (msgLabels[m] \ FolderLabels) \cup NonFolderTargets(seq)
        /\ MaxCalls >= 2 =>
              \A first \in {[op |-> "move", target |-> "TRASH"], [op |-> "archive"]} :
                 ApplySeq(msgLabels, m, <<first, [op |-> "move", target |-> "INBOX"]>>)[m]
                     \cap FolderLabels = {"INBOX"}

\* A message of the inbox that an earlier call moved to TRASH has been moved
\* back by a call that removed TRASH.
C24_Witness ==
    /\ last.op = "move"
    /\ Succeeded(last)
    /\ last.args.message_ids = <<"m2">>
    /\ last.args.new_folder_label = "INBOX"
    /\ ModifyCalls(last)[1].removeLabelIds = {"TRASH"}
    /\ msgLabels["m2"] = {"INBOX"}

-----------------------------------------------------------------------------
(* The spam tool and the label tool: round trips *)

IsSpam(c, mark) ==
    c.op = "spam" /\ c.args.mark_as_spam = mark /\ c.args.new_label = None

\* The unmarking call that follows the marking call c, on the same list
Unmarked(c) == SpamLoop(c.args.message_ids, msgLabels', FALSE, None, NoFailure)

\* C25: when every listed message carries INBOX and not SPAM and no mailbox
\* call fails, marking the list as spam succeeds and puts SPAM on every listed
\* message, and unmarking it afterwards without a new label succeeds and gives
\* back exactly the label sets from before the marking.  Every successful
\* unmarking without a new label leaves SPAM absent and INBOX present on every
\* listed message and changes no other label.
C25_SpamRoundTrip ==
    [][ /\ (/\ Called /\ IsSpam(last', TRUE) /\ Authenticated
            /\ last'.fail = NoFailure
            /\ \A m \in Listed(last') : "INBOX" \in msgLabels[m] /\ "SPAM" \notin msgLabels[m])
           => /\ Succeeded(last')
              /\ \A m \in Listed(last') : msgLabels'[m] = msgLabels[m] \cup {"SPAM"}
              /\ Unmarked(last').result = <<>>
              /\ Unmarked(last').labels = msgLabels
        /\ (Called /\ IsSpam(last', FALSE) /\ Succeeded(last'))
           => /\ \A m \in Listed(last') :
                    /\ "SPAM" \notin msgLabels'[m]
                    /\ "INBOX" \in msgLabels'[m]
                    /\ msgLabels'[m] \ {"SPAM", "INBOX"} = msgLabels[m] \ {"SPAM", "INBOX"}
              /\ \A m \in Msgs \ Listed(last') : msgLabels'[m] = msgLabels[m] ]_vars

\* Two messages of the inbox, one with a user label, have been marked as spam
C25_Witness ==
    /\ IsSpam(last, TRUE)
    /\ Succeeded(last)
    /\ last.args.message_ids = <<"m1", "m2">>
    /\ msgLabels["m1"] = {"INBOX", "IMPORTANT", "SPAM"}
    /\ msgLabels["m2"] = {"INBOX", Id_L1, "SPAM"}
    /\ SpamLoop(<<"m1", "m2">>, msgLabels, FALSE, None, NoFailure).labels
          = ("m1" :> {"INBOX", "IMPORTANT"}) @@ ("m2" :> {"INBOX", Id_L1})

\* The ids of the catalog labels whose names the call c asks for
Wanted(c) ==
    {l.id : l \in {x \in all_labels :
                      \E i \in 1..Len(c.args.labels) : c.args.labels[i] = x.name}}

IsError(c) == "status" \in DOMAIN c.result /\ c.result.status = "error"

\* The removal that follows the adding call c, with the same names and list
RemovedAgain(c) ==
    ManageLoop(c.args.message_ids, msgLabels', c.args.labels, "remove", NoFailure)

\* C26: an authenticated call of manage_labels whose catalog read succeeds
\* (1) returns an error, issues no modify call and changes no label when no
\*     requested name is in the catalog or the action is neither add nor
\*     remove;
\* (2) else issues its modify calls on the listed messages in list order,
\*     each with exactly the catalog labels among the requested names, names
\*     outside the catalog being dropped; when no call fails it succeeds and
\*     every listed message has gained, or lost, exactly those labels;
\* (3) after a successful add, the removal of the same names leaves none of
\*     those labels on any listed message.
C26_ManageLabels ==
    [][ (/\ Called /\ last'.op = "manage_labels" /\ Authenticated
         /\ last'.fail.call # "list")
        => LET c == last'
               ids == c.args.message_ids
               calls == ModifyCalls(c)
               add == c.args.action = "add"
           IN
           IF Wanted(c) = {} \/ c.args.action \notin {"add", "remove"}
           THEN /\ IsError(c)
                /\ calls = <<>>
                /\ UNCHANGED msgLabels
           ELSE /\ Len(calls) <= Len(ids)
                /\ \A k \in 1..Len(calls) :
                      /\ calls[k].id = ids[k]
                      /\ calls[k].addLabelIds = IF add THEN Wanted(c) ELSE {}
                      /\ calls[k].removeLabelIds = IF add THEN {} ELSE Wanted(c)
                /\ c.fail = NoFailure
                   => /\ Succeeded(c)
                      /\ Len(calls) = Len(ids)
                      /\ \A m \in Listed(c) :
                            msgLabels'[m] = IF add THEN msgLabels[m] \cup Wanted(c)
                                            ELSE msgLabels[m] \ Wanted(c)
                      /\ add => /\ RemovedAgain(c).result = <<>>
                                /\ \A m \in Listed(c) :
                                      RemovedAgain(c).labels[m] \cap Wanted(c) = {} ]_vars

\* The names of a user label and of a label that does not exist have been
\* added to two messages: both have gained the user label, which the first
\* did not carry at the start.
C26_Witness ==
    /\ last.op = "manage_labels"
    /\ last.args = [message_ids |-> <<"m1", "m2">>, labels |-> <<"Work", "NoSuchLabel">>,
                    action |-> "add"]
    /\ Succeeded(last)
    /\ Len(ModifyCalls(last)) = 2
    /\ ModifyCalls(last)[1].addLabelIds = {Id_L1}
    /\ Id_L1 \in msgLabels["m1"]
    /\ Id_L1 \in msgLabels["m2"]

-----------------------------------------------------------------------------
(* Where the token endpoint and the store are reached *)

\* The terminal states of runs that make no refresh attempt
NoRefreshFailures ==
    {"NoTokenHeader", "StoreLookupFailed", "CredentialMissing", "ParseFailed",
     "InvalidUnrefreshable"}

\* C27: the token endpoint is called, an access value minted and the store
\* written only in a guard run whose header resolves to a parsable credential
\* that is expired and carries a refresh token; no step other than a guard run
\* changes the store.  A run that ends NoTokenHeader, StoreLookupFailed,
\* CredentialMissing, ParseFailed or InvalidUnrefreshable, or that finds the
\* credential valid, calls no token endpoint and writes nothing, and every
\* run that does not end Valid leaves the context unauthenticated and goes on
\* to the downstream handler.
C27_RefreshOnlyWhenRefreshable ==
    [][ /\ (store' # store \/ issued' # issued) => \E s \in Slots : Guarded(s)
        /\ \A s \in Slots : Guarded(s) =>
             LET r == run'[s] IN
             /\ (r.exchanges # 0 \/ r.writes # 0 \/ store' # store \/ issued' # issued)
                => Refreshable(r)
             /\ r.terminal \in NoRefreshFailures => NoRefresh(r)
             /\ (r.terminal = "Valid" /\ ResolvesValid(r)) => NoRefresh(r)
             /\ r.terminal # "Valid"
                => /\ ~is_authenticated'
                   /\ r.callNext = 1
                   /\ UNCHANGED <<gmail_service, oauth_credentials>> ]_vars

\* An expired credential without a refresh token: the run ends
\* InvalidUnrefreshable without a call to the token endpoint, and the request
\* is at the downstream handler, unauthenticated.
C27_Witness ==
    /\ phase[1] = "downstream"
    /\ run[1].header = "tokB"
    /\ run[1].terminal = "InvalidUnrefreshable"
    /\ run[1].exchanges = 0
    /\ run[1].writes = 0
    /\ issued = {}
    /\ ~is_authenticated
    /\ store["tokB"] = RecNoRefresh

\* C28: a refresh that succeeds changes, in the store, the access value of
\* the records of the subject and nothing else: the records are the same in
\* number and under the same lookup tokens, every other field of every record
\* (refresh token, client data, expiry) is as before, and the lookup token of
\* the request still resolves to the record of the same subject.
C28_RefreshFrame ==
    [][ \A s \in Slots : (Guarded(s) /\ store' # store) =>
          LET r == run'[s] IN
          /\ DOMAIN store' = DOMAIN store
          /\ \A k \in DOMAIN store :
                /\ store'[k] = [store[k] EXCEPT !.token = store'[k].token]
                /\ store'[k] # store[k] => store[k].sub = r.user_id
          /\ store'[r.header].token # store[r.header].token
          /\ store'[r.header].refresh_token
          /\ get_credentials(store', r.header) # NotFound
          /\ get_credentials(store', r.header).sub = get_credentials(store, r.header).sub ]_vars

\* After a refresh has written the value 2, a second request with the same
\* lookup token has resolved to the record, found it expired and refreshable
\* again, and written the value 3.
C28_Witness ==
    /\ phase[1] = "downstream"
    /\ run[1].header = "tokA"
    /\ run[1].terminal = "Valid"
    /\ run[1].exchanges = 1
    /\ issued = {2, 3}
    /\ store["tokA"] = [RecExpired EXCEPT !.token = 3]
    /\ store["tokB"] = RecNoRefresh

\* The guard run of slot s in this step refreshed and nothing raised
Refreshed(s) ==
    /\ Guarded(s)
    /\ run'[s].exchanges = 1
    /\ run'[s].terminal = "Valid"

\* The guard run of slot s in this step wrote to the store
Wrote(s) ==
    /\ Guarded(s)
    /\ run'[s].writes = 1
    /\ run'[s].raised # "write"

\* C29: two requests with the same expired credential are in flight at once.
\* Every guard run in which nothing raises refreshes, whatever the other
\* request has done before; it ends authenticated with a handle that carries
\* the access value this run obtained, a value no run obtained before, and the
\* store then holds the record as it was with exactly that value: the value of
\* the latest write, with the refresh token and the other fields as before.
\* Only a guard run that writes changes the store, and the old value never
\* comes back.
C29_ConcurrentRefresh ==
    [][ /\ \A s \in Slots :
             (Guarded(s) /\ run'[s].header = "tokA" /\ run'[s].raised = "none")
             => /\ Refreshed(s)
                /\ \E v \in issued' \ issued :
                      /\ issued' = issued \cup {v}
                      /\ v # store["tokA"].token
                      /\ is_authenticated'
                      /\ gmail_service' = [sub |-> "u1", token |-> v]
                      /\ store'["tokA"] = [RecExpired EXCEPT !.token = v]
        /\ store' # store => \E s \in Slots : Wrote(s)
        /\ store["tokA"].token # RecExpired.token
           => store'["tokA"].token # RecExpired.token
        /\ store'["tokB"] = store["tokB"] ]_vars

\* Both requests are at their handlers after each has refreshed; the store
\* holds the value of the second write.
C29_Witness ==
    /\ \A s \in Slots :
          /\ phase[s] = "downstream"
          /\ run[s].header = "tokA"
          /\ run[s].terminal = "Valid"
          /\ run[s].exchanges = 1
          /\ run[s].writes = 1
    /\ issued = {2, 3}
    /\ store["tokA"] = [RecExpired EXCEPT !.token = 3]
    /\ is_authenticated

-----------------------------------------------------------------------------
(* Failures of the mailbox inside the folder tools *)

\* C30: every call of move or archive returns a result with a status, and
\* when a mailbox call of an authenticated call fails (the catalog read
\* before the loop, or the read or the modify of a message) the result has
\* the status "error": no exception leaves the tool.
C30_ExceptionConversion ==
    last.op \in {"move", "archive"}
    => /\ "status" \in DOMAIN last.result
       /\ (Authenticated /\ last.fail # NoFailure) => IsError(last)

-----------------------------------------------------------------------------
(* The list tools: what the collected list holds *)

\* The list tool returns its collected list in this step
Collected == fanout.op # "none" /\ fanout' = NoFanout

\* The futures whose fetch succeeded
Fetched_ok(f) == {i \in 1..Len(f.status) : f.status[i] = "ok"}

\* The position of x in the sequence seq of distinct elements
Pos(seq, x) == CHOOSE k \in 1..Len(seq) : seq[k] = x

\* The ids of the fetched items in the order in which their futures completed
InCompletionOrder(f) ==
    LET done == SelectSeq(f.order, LAMBDA i : f.status[i] = "ok")
    IN  [k \in 1..Len(done) |-> f.listed[done[k]]]

\* What every return of a list tool that ran its pool satisfies: all workers
\* have finished, never more than max_workers of them ran at once, the call
\* succeeds, and the list holds once each item whose fetch succeeded and
\* nothing else.
ExactlyTheFetched(f, c) ==
    /\ Completed(f) = 1..Len(f.listed)
    /\ Cardinality(Running(f)) <= max_workers
    /\ Succeeded(c)
    /\ Len(c.result.items) = Cardinality(Fetched_ok(f))
    /\ {c.result.items[k] : k \in 1..Len(c.result.items)}
          = {f.listed[i] : i \in Fetched_ok(f)}

\* C31 as claimed: the list tool returns after every worker has finished,
\* with once each item whose fetch succeeded and nothing else, and the list
\* is in the order in which the fetches completed.
C31_CompletionOrder ==
    [][ Collected => /\ ExactlyTheFetched(fanout, last')
                     /\ last'.result.items = InCompletionOrder(fanout) ]_vars

\* C31: the list tool returns after every worker has finished, with once
\* each item whose fetch succeeded and nothing else, successfully also when
\* fetches failed.  The items whose fetch completed after the tool began to
\* collect are in the order of completion and come after all the items whose
\* fetch had completed before; the latter are in no particular order.
C31_FanOut ==
    [][ Collected =>
          LET f == fanout
              items == last'.result.items
              at(i) == Pos(items, f.listed[i])
          IN
          /\ ExactlyTheFetched(f, last')
          /\ \A a, b \in Fetched_ok(f) :
                /\ (a \in f.snapshot /\ b \notin f.snapshot) => at(a) < at(b)
                /\ (a \notin f.snapshot /\ b \notin f.snapshot
                    /\ Pos(f.order, a) < Pos(f.order, b)) => at(a) < at(b) ]_vars

\* Three items were listed; the fetch of the second failed and the third is
\* returned before the first.
C31_Witness ==
    /\ last.op = "get_emails"
    /\ last.args.listed = <<"m1", "m2", "m3">>
    /\ last.result = [status |-> "success", items |-> <<"m3", "m1">>]
    /\ fanout = NoFanout
    /\ phase[1] = "idle"

-----------------------------------------------------------------------------
(* The record that authorization stores *)

\* The record under the lookup token of the latest authorization is the one
\* that authorization stored
HoldsGrant ==
    /\ granted # NoGrant
    /\ granted.key \in DOMAIN store
    /\ store[granted.key].token = granted.token

\* C32: the record that authorization stores carries the access value, the
\* refresh token and the expiry of the credential obtained, so that a guard
\* run that reads it back at or after that expiry finds it expired.
C32_RecordCarriesExpiry ==
    HoldsGrant
    => /\ store[granted.key].refresh_token = granted.refresh_token
       /\ store[granted.key].expiry = granted.expiry
       /\ now >= granted.expiry * TicksPerSecond => CredExpired(store[granted.key], now)

-----------------------------------------------------------------------------
(* How often the guard calls the downstream handler *)

\* C33: once a guard run has reached its terminal state, the downstream
\* handler has been called exactly once for the request, whatever raised.
C33_CallNextOnce ==
    \A s \in Slots : run[s].terminal # "none" => run[s].callNext = 1

-----------------------------------------------------------------------------
(* The flag and the handle *)

\* The handle published is the one of the credential that the run of slot s
\* validated or refreshed: the record now stored under its header
HandleOfRun(s) ==
    /\ run[s].terminal = "Valid"
    /\ run[s].header \in DOMAIN store
    /\ gmail_service = [sub |-> store[run[s].header].sub,
                        token |-> store[run[s].header].token]
    /\ oauth_credentials = gmail_service

\* C34: with requests taken one at a time, a guard run sets the flag only
\* with the handle of the credential of that run published; a run in which
\* building the handle raises ends with the flag false, the message of the
\* outer except recorded and nothing published; and whenever the flag is
\* true the current handle is the one of the run's credential.
C34_FlagAfterPublish ==
    [][ /\ \A s \in Slots : Guarded(s)
            => /\ is_authenticated' => HandleOfRun(s)'
               /\ run'[s].raised = "attach"
                    => /\ ~is_authenticated'
                       /\ run'[s].msg = MsgCaught
                       /\ error_message' = MsgCaught
                       /\ UNCHANGED <<gmail_service, oauth_credentials>>
        /\ is_authenticated' => \E s \in Slots : HandleOfRun(s)' ]_vars

\* A refreshed credential, its handle published, the flag set
C34_Witness ==
    /\ phase[1] = "downstream"
    /\ is_authenticated
    /\ HandleOfRun(1)
    /\ run[1].exchanges = 1
    /\ gmail_service = [sub |-> "u1", token |-> 2]

-----------------------------------------------------------------------------
(* The flag from one request to the next *)

\* C35: with requests handled one after another, the flag that the
\* operations of the current request see is true exactly when the guard run
\* of the current request ended in Valid, whatever the earlier requests left:
\* after a run that ended otherwise the access check returns the error result.
C35_FlagOfCurrentRun ==
    \A s \in Slots :
        phase[s] = "downstream"
        => /\ is_authenticated <=> run[s].terminal = "Valid"
           /\ run[s].terminal # "Valid" => check_access = AuthError

\* A request without the header after an authenticated request: the handle
\* of the earlier request is still there and the request is unauthenticated
C35_Witness ==
    /\ phase[1] = "downstream"
    /\ run[1].terminal = "NoTokenHeader"
    /\ gmail_service = [sub |-> "u1", token |-> 1]
    /\ oauth_credentials # NoService
    /\ ~is_authenticated
    /\ check_access = AuthError

-----------------------------------------------------------------------------
(* The message that the access check returns *)

\* C36: with requests handled one after another, the message that the access
\* check returns to an unauthenticated request is the message that the
\* guard run of that request recorded, or the default message when that run
\* recorded none.
C36_OwnMessage ==
    \A s \in Slots :
        (AtHandler(s) /\ ~is_authenticated)
        => check_access.error = IF run[s].msg # None THEN run[s].msg ELSE MsgDefault

-----------------------------------------------------------------------------
(* A token of one deletion tool presented to the other *)

\* The call of this step presents, for the id it was returned for, the token
\* that the other deletion tool returned
CrossPresented ==
    /\ Called
    /\ IsDelete(last')
    /\ Authenticated
    /\ held.token # <<>>
    /\ held.by # last'.op
    /\ last'.args.token = held.token
    /\ last'.args.id = held.id

\* C37: a confirmation token is bound to the resource id and the issue time
\* and not to the operation.  A token that delete_draft returned for an id is
\* accepted by delete_label, and one that delete_label returned is accepted by
\* delete_draft, when it is presented with the same id within the validity
\* window: the tool issues its own delete call for that id.  Outside the
\* window it is refused as any token is.
C37_TokenNotBoundToOperation ==
    [][ CrossPresented
        => IF InWindowFor(held.token, held.id, now)
           THEN /\ last'.calls = <<[api |-> DeleteApi(last'), id |-> held.id]>>
                /\ "status" \in DOMAIN last'.result
           ELSE /\ last'.calls = <<>>
                /\ "error" \in DOMAIN last'.result ]_vars

\* The label L1 is deleted with a token that delete_draft returned for L1
C37_Witness ==
    /\ last.op = "delete_label"
    /\ last.args.id = Id_L1
    /\ held = [token |-> MintToken(Id_L1, held.at), id |-> Id_L1, at |-> held.at,
               by |-> "delete_draft"]
    /\ last.args.token = held.token
    /\ last.at > held.at
    /\ last.result = [status |-> "success", message |-> "Label deleted successfully."]
    /\ Id_L1 \notin userLabels

-----------------------------------------------------------------------------
(* Termination of a guard run and the external calls it makes *)

\* The terminal states of the guard
GuardTerminals == NonValidTerminals \cup {"Valid"}

\* The external calls of the run r: at most one store lookup, one exchange at
\* the token endpoint and one store write, and no second exchange after a
\* refresh that failed
CallsBounded(r) ==
    /\ r.lookups \in {0, 1}
    /\ r.exchanges \in {0, 1}
    /\ r.writes \in {0, 1}
    /\ r.writes <= r.exchanges
    /\ r.exchanges <= r.lookups
    /\ r.terminal = "RefreshFailed" => r.exchanges = 1

\* A guard run ends at the downstream handler, and only a guard run reaches
\* the store or the token endpoint: nothing is tried again later in the request
RunsOnce ==
    /\ \A s \in Slots : Guarded(s)
          => /\ run'[s].callNext = 1
             /\ Cardinality(issued' \ issued) <= run'[s].exchanges
             /\ store' # store => run'[s].writes = 1
    /\ (\A s \in Slots : ~Guarded(s))
          => /\ UNCHANGED <<store, issued>>
             /\ \A s \in Slots : /\ run'[s].terminal = run[s].terminal
                                 /\ run'[s].lookups = run[s].lookups
                                 /\ run'[s].exchanges = run[s].exchanges
                                 /\ run'[s].writes = run[s].writes

\* C38 as claimed: every guard run ends in exactly one of the terminal states
\* NoTokenHeader, StoreLookupFailed, CredentialMissing, ParseFailed, Valid,
\* RefreshFailed, InvalidUnrefreshable, after at most one store lookup, one
\* exchange and one store write, and nothing is tried a second time.
C38_TerminatesInTerminalState ==
    [][ /\ \A s \in Slots : Guarded(s)
            => run'[s].terminal \in GuardTerminals /\ CallsBounded(run'[s])
        /\ RunsOnce ]_vars

\* C38, amended: every guard run ends in one of those terminal states or,
\* when the construction of the handle raises after the credential was found
\* valid or was refreshed, unauthenticated with the message of the outer
\* except; in every case after at most one store lookup, one exchange and
\* one store write, and nothing is tried a second time.
C38_TerminatesBounded ==
    [][ /\ \A s \in Slots : Guarded(s)
            => /\ run'[s].terminal \in GuardTerminals \cup {"AttachFailed"}
               /\ run'[s].terminal = "AttachFailed"
                    => /\ run'[s].raised = "attach"
                       /\ run'[s].lookups = 1
                       /\ ~is_authenticated'
                       /\ error_message' = MsgCaught
               /\ CallsBounded(run'[s])
        /\ RunsOnce ]_vars

\* The exchange raised: one lookup, one exchange, no write, and the request
\* is at the downstream handler
C38_Witness ==
    /\ phase[1] = "downstream"
    /\ run[1].terminal = "RefreshFailed"
    /\ run[1].raised = "exchange"
    /\ run[1].lookups = 1
    /\ run[1].exchanges = 1
    /\ run[1].writes = 0
    /\ run[1].callNext = 1
    /\ issued = {}

====
